---- MODULE Spec2Model ----
(***************************************************************************)
(* Admission workflow, audit trail, service periods and bill ledger of     *)
(* SOSenki, modelled over a transactional store reached through one        *)
(* SQLAlchemy session.                                                     *)
(*                                                                         *)
(*   db       the committed store (what any new session reads)             *)
(*   session  the caller's session: tx is the store as seen inside the     *)
(*            open transaction (committed rows plus flushed rows),         *)
(*            pending the unit of work not flushed yet                     *)
(*   lastOp   the last call and what it returned                           *)
(***************************************************************************)
EXTENDS Integers, Sequences, FiniteSets, TLC

VARIABLES db, session, lastOp

vars == <<db, session, lastOp>>

----------------------------------------------------------------------------
(* Bounds *)

MaxRequests == 2

MaxAudit == 3

MaxPeriods == 1

MaxBills == 2

MaxTransactions == 2

MaxHandlers == 2

MaxProperties == 2

----------------------------------------------------------------------------
(* Values *)

NULL == 0

PENDING == "pending"

APPROVED == "approved"

REJECTED == "rejected"

RequestStatus == {PENDING, APPROVED, REJECTED}

TelegramIds == {1, 2}

\* The Telegram profile of each requester: requester 1 has a username,
\* requester 2 has none.
UsernameOf(tid) == IF tid = 1 THEN "alice" ELSE "null"

----------------------------------------------------------------------------
(* The store and the session *)

EmptyStore ==
    [requests |-> <<>>, users |-> <<>>, audit |-> <<>>,
     accounts |-> <<>>, periods |-> <<>>, bills |-> <<>>, transactions |-> <<>>,
     properties |-> <<>>]

\* An administrator (telegram id 9) and a member who has no Telegram
\* identity yet; the member has an owner account, the administrator has an
\* account that is not of type owner.
InitStore ==
    [EmptyStore EXCEPT
        !.users =
        << [telegram_id |-> 9, username |-> "null", name |-> <<"Admin", 0>>,
            is_active |-> TRUE, is_administrator |-> TRUE],
           [telegram_id |-> NULL, username |-> "null", name |-> <<"Member", 0>>,
            is_active |-> FALSE, is_administrator |-> FALSE] >>,
        !.accounts =
        << [user_id |-> 2, account_type |-> "owner", name |-> "Member"],
           [user_id |-> 1, account_type |-> "staff", name |-> "Admin"] >>]

\* SessionLocal(): a session whose transaction sees the committed store.
SessionLocal(store) == [tx |-> store, pending |-> <<>>]

\* session.add(obj): stage a new row; nothing is written yet.
SessionAdd(s, table, row) ==
    [s EXCEPT !.pending = Append(@, [kind |-> "add", table |-> table, id |-> NULL, row |-> row])]

\* Attribute assignment on a loaded object: the row is dirty until flushed.
SessionSet(s, table, id, row) ==
    [s EXCEPT !.pending = Append(@, [kind |-> "set", table |-> table, id |-> id, row |-> row])]

ApplyEntry(store, e) ==
    IF e.kind = "add"
    THEN [store EXCEPT ![e.table] = Append(@, e.row)]
    ELSE [store EXCEPT ![e.table] = [@ EXCEPT ![e.id] = e.row]]

RECURSIVE ApplyAll(_, _)
ApplyAll(store, entries) ==
    IF entries = <<>> THEN store
    ELSE ApplyAll(ApplyEntry(store, Head(entries)), Tail(entries))

\* session.flush(): write the unit of work into the open transaction; new
\* rows get their ids (the position in the table).
SessionFlush(s) == [tx |-> ApplyAll(s.tx, s.pending), pending |-> <<>>]

\* session.rollback(): drop the unit of work and the open transaction.
SessionRollback(s, store) == [s EXCEPT !.tx = store, !.pending = <<>>]

\* session.commit(): flush, then make the transaction the committed store.
SessionCommit(s) == SessionFlush(s)

----------------------------------------------------------------------------
(* AuditService *)

AuditLog(entity_type, entity_id, action, actor_id, changes) ==
    [entity_type |-> entity_type, entity_id |-> entity_id, action |-> action,
     actor_id |-> actor_id, changes |-> changes]

\* An audit service that overwrites the latest entry once the log holds one.
AuditService_log_upsert(s, entity_type, entity_id, action, actor_id, changes) ==
    IF s.tx.audit = <<>>
    THEN SessionAdd(s, "audit", AuditLog(entity_type, entity_id, action, actor_id, changes))
    ELSE SessionSet(s, "audit", Len(s.tx.audit),
                    AuditLog(entity_type, entity_id, action, actor_id, changes))

\* An audit service that flushes the session after staging its entry.
AuditService_log_flushing(s, entity_type, entity_id, action, actor_id, changes) ==
    SessionFlush(SessionAdd(s, "audit",
                            AuditLog(entity_type, entity_id, action, actor_id, changes)))

AuditService_log(s, entity_type, entity_id, action, actor_id, changes) ==
    SessionAdd(s, "audit", AuditLog(entity_type, entity_id, action, actor_id, changes))

----------------------------------------------------------------------------
(* What a call hands back: the committed store, the session as the call    *)
(* leaves it, the result ("ok" with a value, "none" for None/False,        *)
(* "raised" when an exception reaches the caller) and the step that        *)
(* raised, if one did.                                                     *)

Outcome(store, s, ret, value, fault) ==
    [db |-> store, session |-> s, ret |-> ret, value |-> value, fault |-> fault]

\* An exception nobody catches. A failed flush or commit has rolled the
\* transaction back; a failed query leaves the session as it was.
Raised(store, s, fault) ==
    Outcome(store,
            IF fault \in {"flush", "commit"} THEN SessionRollback(s, store) ELSE s,
            "raised", NULL, fault)

RowsWhere(table, P(_)) == {i \in DOMAIN table : P(table[i])}

\* The query loses its filter on the id and yields the newest request.
get_request_by_id_unfiltered(store, request_id) ==
    IF store.requests = <<>> THEN {} ELSE {Len(store.requests)}

\* select(AccessRequest).where(AccessRequest.id == request_id)
get_request_by_id(store, request_id) ==
    RowsWhere(store.requests, LAMBDA r : TRUE) \cap {request_id}

----------------------------------------------------------------------------
(* RequestService *)

CreateFailPoints == {"no", "execute", "flush", "commit", "refresh"}

\* The pending check compares the wrong column and finds nothing.
get_pending_request_blind(store, tid) ==
    RowsWhere(store.requests,
              LAMBDA r : r.admin_telegram_id = tid /\ r.status = PENDING)

\* The pending check forgets the status and finds any request of the requester.
get_pending_request_any_status(store, tid) ==
    RowsWhere(store.requests, LAMBDA r : r.user_telegram_id = tid)

get_pending_request(store, tid) ==
    RowsWhere(store.requests,
              LAMBDA r : r.user_telegram_id = tid /\ r.status = PENDING)

NewRequest(tid, username) ==
    [user_telegram_id |-> tid, user_telegram_username |-> username,
     request_message |-> "msg", status |-> PENDING,
     admin_telegram_id |-> NULL, admin_response |-> "null"]

create_request(store, s, tid, username, fail) ==
    IF fail = "execute" THEN Raised(store, s, "execute")
    ELSE
    LET s1 == SessionFlush(s)      \* the query autoflushes
        existing_pending == get_pending_request(s1.tx, tid)
    IN  IF Cardinality(existing_pending) > 1
        THEN Raised(store, s1, "MultipleResultsFound")
        ELSE IF existing_pending # {}
        THEN Outcome(store, s1, "none", NULL, "no")
        ELSE IF fail = "flush" THEN Raised(store, s1, "flush")
        ELSE
        LET s2 == SessionFlush(SessionAdd(s1, "requests", NewRequest(tid, username)))
            id == Len(s2.tx.requests)
            s3 == AuditService_log(s2, "access_request", id, "create", NULL,
                      [user_telegram_id |-> tid, user_telegram_username |-> username,
                       status |-> "pending"])
        IN  IF fail = "commit" THEN Raised(store, s3, "commit")
            ELSE LET s4 == SessionCommit(s3)
                 IN  IF fail = "refresh"
                     THEN Raised(s4.tx, s4, "refresh")
                     ELSE Outcome(s4.tx, s4, "ok", id, "no")

UpdateFailPoints == {"no", "execute", "commit"}

update_request_status(store, s, request_id, new_status, admin_telegram_id, admin_response, fail) ==
    IF fail = "execute" THEN Raised(store, s, "execute")
    ELSE
    LET s1 == SessionFlush(s)
    IN  IF get_request_by_id(s1.tx, request_id) = {}
        THEN Outcome(store, s1, "none", NULL, "no")
        ELSE IF fail = "commit" THEN Raised(store, s1, "commit")
        ELSE
        LET request == [s1.tx.requests[request_id] EXCEPT
                            !.status = new_status,
                            !.admin_telegram_id = admin_telegram_id,
                            !.admin_response = admin_response]
            s2 == SessionCommit(SessionSet(s1, "requests", request_id, request))
        IN  Outcome(s2.tx, s2, "ok", request_id, "no")

----------------------------------------------------------------------------
(* AdminService *)

ApproveFailPoints == {"no", "execute", "user", "flush", "log", "commit"}

RejectFailPoints == {"no", "execute", "flush", "log", "commit"}

\* The handler commits what was done so far instead of rolling back.
Caught_committing(store, s, fault) ==
    Outcome(SessionCommit(s).tx, SessionCommit(s), "none", NULL, fault)

\* except Exception: log the error, session.rollback(), return None
Caught(store, s, fault) == Outcome(store, SessionRollback(s, store), "none", NULL, fault)

UsersByTelegramId(store, tid) ==
    RowsWhere(store.users, LAMBDA u : u.telegram_id = tid)

\* The link takes the Telegram credentials over but leaves the user inactive.
LinkedUser_inactive(user, request) ==
    [user EXCEPT !.telegram_id = request.user_telegram_id,
                 !.username = request.user_telegram_username]

\* The selected user takes the requester's Telegram credentials.
LinkedUser(user, request) ==
    [user EXCEPT !.telegram_id = request.user_telegram_id,
                 !.username = request.user_telegram_username,
                 !.is_active = TRUE]

ActivatedUser(user) == [user EXCEPT !.is_active = TRUE]

PlaceholderUser(request) ==
    [telegram_id |-> request.user_telegram_id, username |-> "null",
     name |-> <<"User_", request.user_telegram_id>>,
     is_active |-> TRUE, is_administrator |-> FALSE]

\* The approval forgets to record who answered.
ApprovedRequest_anonymous(request, admin_user) ==
    [request EXCEPT !.status = APPROVED, !.admin_response = "approved"]

ApprovedRequest(request, admin_user) ==
    [request EXCEPT !.status = APPROVED,
                    !.admin_response = "approved",
                    !.admin_telegram_id = admin_user.telegram_id]

\* The rejection also wipes the requester's username.
RejectedRequest_wiping(request, admin_user) ==
    [request EXCEPT !.status = REJECTED,
                    !.admin_telegram_id = admin_user.telegram_id,
                    !.admin_response = "rejected",
                    !.user_telegram_username = "null"]

RejectedRequest(request, admin_user) ==
    [request EXCEPT !.status = REJECTED,
                    !.admin_telegram_id = admin_user.telegram_id,
                    !.admin_response = "rejected"]

approve_request(store, s, request_id, admin_user, selected_user_id, fail) ==
    IF fail = "execute" THEN Caught(store, s, "execute")
    ELSE
    LET s1 == SessionFlush(s)
    IN  IF get_request_by_id(s1.tx, request_id) = {}
        THEN Outcome(store, s1, "none", NULL, "no")
        ELSE
        LET request == s1.tx.requests[CHOOSE i \in get_request_by_id(s1.tx, request_id) : TRUE]
            linking == selected_user_id # NULL /\ selected_user_id > 0
            found == UsersByTelegramId(s1.tx, request.user_telegram_id)
        IN  IF fail = "user" THEN Caught(store, s1, "user")
            ELSE IF linking /\ selected_user_id \notin DOMAIN s1.tx.users
            THEN Outcome(store, s1, "none", NULL, "no")
            ELSE IF ~linking /\ Cardinality(found) > 1
            THEN Caught(store, s1, "MultipleResultsFound")
            ELSE
            LET s2 == IF linking
                      THEN SessionSet(s1, "users", selected_user_id,
                               LinkedUser(s1.tx.users[selected_user_id], request))
                      ELSE IF found # {}
                      THEN LET uid == CHOOSE u \in found : TRUE
                           IN  SessionSet(s1, "users", uid, ActivatedUser(s1.tx.users[uid]))
                      ELSE SessionAdd(s1, "users", PlaceholderUser(request))
                s3 == SessionSet(s2, "requests", request_id,
                                 ApprovedRequest(request, admin_user))
            IN  IF fail = "flush" THEN Caught(store, s3, "flush")
                ELSE
                LET s4 == SessionFlush(s3)
                    s5 == AuditService_log(s4, "access_request", request_id, "approve",
                              admin_user.id,
                              [status |-> "approved",
                               user_telegram_id |-> request.user_telegram_id,
                               selected_user_id |-> selected_user_id])
                IN  IF fail = "log" THEN Caught(store, s4, "log")
                    ELSE IF fail = "commit" THEN Caught(store, s5, "commit")
                    ELSE LET s6 == SessionCommit(s5)
                         IN  Outcome(s6.tx, s6, "ok", request_id, "no")

reject_request(store, s, request_id, admin_user, fail) ==
    IF fail = "execute" THEN Caught(store, s, "execute")
    ELSE
    LET s1 == SessionFlush(s)
    IN  IF get_request_by_id(s1.tx, request_id) = {}
        THEN Outcome(store, s1, "none", NULL, "no")
        ELSE
        LET request == s1.tx.requests[CHOOSE i \in get_request_by_id(s1.tx, request_id) : TRUE]
            s2 == SessionSet(s1, "requests", request_id,
                             RejectedRequest(request, admin_user))
        IN  IF fail = "flush" THEN Caught(store, s2, "flush")
            ELSE
            LET s3 == SessionFlush(s2)
                s4 == AuditService_log(s3, "access_request", request_id, "reject",
                          admin_user.id,
                          [status |-> "rejected",
                           user_telegram_id |-> request.user_telegram_id])
            IN  IF fail = "log" THEN Caught(store, s3, "log")
                ELSE IF fail = "commit" THEN Caught(store, s4, "commit")
                ELSE LET s5 == SessionCommit(s4)
                     IN  Outcome(s5.tx, s5, "ok", request_id, "no")

----------------------------------------------------------------------------
(* NotificationService and the administrator's reply handlers of           *)
(* bot/handlers.py.  A handler opens its own session, calls the service,   *)
(* notifies the requester and answers the administrator; messages is what  *)
(* it sent, in order.                                                      *)

Reply(text) == [chat |-> "admin", client_id |-> NULL, text |-> text]

Notification(client_id, text) == [chat |-> "client", client_id |-> client_id, text |-> text]

\* try: await self.bot.send_message(...)  except Exception: print; raise
send_message(outbox, message, fails) ==
    IF fails THEN [outbox |-> outbox, raised |-> TRUE]
    ELSE [outbox |-> Append(outbox, message), raised |-> FALSE]

send_welcome_message(outbox, client_id, fails) ==
    send_message(outbox, Notification(client_id, "welcome"), fails)

send_rejection_message(outbox, client_id, fails) ==
    send_message(outbox, Notification(client_id, "rejection"), fails)

\* The parameters of AdminService.approve_request and reject_request, and
\* the keyword arguments the handlers call them with.
ApproveRequestParameters == {"request_id", "admin_user", "selected_user_id"}

RejectRequestParameters == {"request_id", "admin_user"}

RequiredParameters == {"request_id", "admin_user"}

HandlerKeywords == {"request_id", "admin_telegram_id"}

\* Python binds a call when every keyword names a parameter and every
\* parameter without a default is given; otherwise the call raises TypeError.
Binds(keywords, required, parameters) ==
    keywords \subseteq parameters /\ required \subseteq keywords

\* What the update carries: no message, a text that is not the command, a
\* text that replies to nothing, a reply whose request id cannot be parsed,
\* or a reply to a request notification.
UpdateKinds == {"no_message", "not_command", "no_reply", "unparsable", "reply"}

HandlerResult(store, messages, stop) == [db |-> store, messages |-> messages, fault |-> stop]

\* What the handler does before it opens its session.
EarlyReturn(store, update, usage) ==
    IF update.kind = "no_message" THEN HandlerResult(store, <<>>, "no_message")
    ELSE IF update.kind = "not_command"
    THEN HandlerResult(store, <<Reply(usage)>>, "not_command")
    ELSE IF update.kind = "no_reply"
    THEN HandlerResult(store, <<Reply("Please reply to a request notification")>>, "no_reply")
    ELSE HandlerResult(store, <<Reply("Could not parse request ID from message")>>,
                       "unparsable")

\* The requester of the request the service returned.
ClientOf(o, request_id) ==
    IF o.ret = "ok" THEN o.db.requests[request_id].user_telegram_id ELSE NULL

\* The part of both handlers after the service call was bound: o is what
\* the service returned, sent the attempt to notify the requester.
AfterService(o, sent, confirmation, error) ==
    IF o.ret # "ok"
    THEN HandlerResult(o.db, <<Reply("Request not found")>>, o.fault)
    ELSE IF sent.raised
    THEN HandlerResult(o.db, Append(sent.outbox, Reply(error)), "send")
    ELSE HandlerResult(o.db, Append(sent.outbox, Reply(confirmation)), "no")

handle_admin_approve(store, update, fail, sendFails) ==
    IF update.kind # "reply"
    THEN EarlyReturn(store, update, "Please use /approve or reply with 'Approve'")
    ELSE IF ~Binds(HandlerKeywords, RequiredParameters, ApproveRequestParameters)
    THEN HandlerResult(store, <<Reply("Error processing approval")>>, "TypeError")
    ELSE
    LET o == approve_request(store, SessionLocal(store), update.request_id,
                             [id |-> NULL, telegram_id |-> update.admin_id], NULL, fail)
    IN  AfterService(o, send_welcome_message(<<>>, ClientOf(o, update.request_id), sendFails),
                     "Request approved and client notified", "Error processing approval")

handle_admin_reject(store, update, fail, sendFails) ==
    IF update.kind # "reply"
    THEN EarlyReturn(store, update, "Please use /reject or reply with 'Reject'")
    ELSE IF ~Binds(HandlerKeywords, RequiredParameters, RejectRequestParameters)
    THEN HandlerResult(store, <<Reply("Error processing rejection")>>, "TypeError")
    ELSE
    LET o == reject_request(store, SessionLocal(store), update.request_id,
                            [id |-> NULL, telegram_id |-> update.admin_id], fail)
    IN  AfterService(o, send_rejection_message(<<>>, ClientOf(o, update.request_id), sendFails),
                     "Request rejected and client notified", "Error processing rejection")

----------------------------------------------------------------------------
(* ServicePeriodService *)

Date(y, m, d) == [year |-> y, month |-> m, day |-> d]

\* start_date + relativedelta(months=n), for a first day of a month
AddMonths(date, n) ==
    [date EXCEPT !.year = date.year + ((date.month - 1 + n) \div 12),
                 !.month = ((date.month - 1 + n) % 12) + 1]

\* str(value), as the audit snapshots store numbers and dates
Str(v) == <<"str", v>>

\* float(amount), as the audit snapshots store bill amounts
Float(v) == <<"float", v>>

\* f"{start:%d.%m.%Y} - {end:%d.%m.%Y}" unless the caller gives a name
PeriodName(name, start_date, end_date) ==
    IF name = "null" THEN <<"auto", start_date, end_date>>
    ELSE <<name, start_date, start_date>>

NoReadings ==
    [electricity_start |-> NULL, electricity_end |-> NULL,
     electricity_multiplier |-> NULL, electricity_rate |-> NULL,
     electricity_losses |-> NULL]

NewPeriod(name, start_date, end_date, period_months) ==
    [name |-> name, start_date |-> start_date, end_date |-> end_date,
     status |-> "open", period_months |-> period_months,
     readings |-> NoReadings,
     year_budget |-> NULL, conservation_year_budget |-> NULL]

\* session.get(ServicePeriod, period_id)
get_by_id(store, period_id) ==
    RowsWhere(store.periods, LAMBDA r : TRUE) \cap {period_id}

CreatePeriodFailPoints == {"no", "flush", "commit"}

create_period(store, s, start_date, period_months, name, actor_id, fail) ==
    IF start_date.day # 1 THEN Raised(store, s, "ValueError")
    ELSE IF ~(1 <= period_months /\ period_months <= 12)
    THEN Raised(store, s, "ValueError")
    ELSE IF fail = "flush" THEN Raised(store, s, "flush")
    ELSE
    LET end_date == AddMonths(start_date, period_months)
        pname == PeriodName(name, start_date, end_date)
        s1 == SessionFlush(SessionAdd(s, "periods",
                  NewPeriod(pname, start_date, end_date, period_months)))
        id == Len(s1.tx.periods)
        s2 == AuditService_log(s1, "service_period", id, "create", actor_id,
                  [name |-> pname, start_date |-> Str(start_date),
                   end_date |-> Str(end_date), period_months |-> period_months,
                   status |-> "open"])
    IN  IF fail = "commit" THEN Raised(store, s2, "commit")
        ELSE LET s3 == SessionCommit(s2)
             IN  Outcome(s3.tx, s3, "ok", id, "no")

\* The shape the three period updates share: load by id, give up with False
\* when the period is absent, assign, stage the audit entry, commit.
UpdatePeriod(store, s, period_id, row(_), action, actor_id, changes(_), fail) ==
    IF fail = "execute" THEN Raised(store, s, "execute")
    ELSE IF get_by_id(s.tx, period_id) = {}
    THEN Outcome(store, s, "none", NULL, "no")
    ELSE
    LET period == s.tx.periods[period_id]
        s1 == SessionSet(s, "periods", period_id, row(period))
        s2 == AuditService_log(s1, "service_period", period_id, action, actor_id,
                               changes(period))
    IN  IF fail = "commit" THEN Raised(store, s2, "commit")
        ELSE LET s3 == SessionCommit(s2)
             IN  Outcome(s3.tx, s3, "ok", period_id, "no")

update_electricity_data(store, s, period_id, readings, actor_id, fail) ==
    UpdatePeriod(store, s, period_id,
        LAMBDA period : [period EXCEPT !.readings = readings],
        "update", actor_id,
        LAMBDA period :
            [electricity_start |-> Str(readings.electricity_start),
             electricity_end |-> Str(readings.electricity_end),
             electricity_multiplier |-> Str(readings.electricity_multiplier),
             electricity_rate |-> Str(readings.electricity_rate),
             electricity_losses |-> Str(readings.electricity_losses)],
        fail)

update_budget_data(store, s, period_id, year_budget, conservation_year_budget, actor_id, fail) ==
    UpdatePeriod(store, s, period_id,
        LAMBDA period : [period EXCEPT !.year_budget = year_budget,
                             !.conservation_year_budget = conservation_year_budget],
        "update", actor_id,
        LAMBDA period :
            [year_budget |-> Str(year_budget),
             conservation_year_budget |-> Str(conservation_year_budget)],
        fail)

close_period(store, s, period_id, actor_id, fail) ==
    UpdatePeriod(store, s, period_id,
        LAMBDA period : [period EXCEPT !.status = "closed"],
        "close", actor_id,
        LAMBDA period : [status |-> "closed", period_name |-> period.name],
        fail)

----------------------------------------------------------------------------
(* BillsService: the three bill batches *)

BillTypes == {"main", "conservation", "shared_electricity"}

\* An account lookup that takes any account of the user, whatever its type.
OwnerAccounts_any_type(store, user_id) ==
    RowsWhere(store.accounts, LAMBDA a : a.user_id = user_id)

\* An account lookup that skips accounts which already hold a bill.
OwnerAccounts_unbilled(store, user_id) ==
    RowsWhere(store.accounts,
              LAMBDA a : a.user_id = user_id /\ a.account_type = "owner")
        \ {store.bills[k].account_id : k \in DOMAIN store.bills}

\* select(Account).filter(user_id == ..., account_type == "owner")
OwnerAccounts(store, user_id) ==
    RowsWhere(store.accounts,
              LAMBDA a : a.user_id = user_id /\ a.account_type = "owner")

\* The id is read before the flush has assigned it.
BillId_unflushed(s) == NULL

\* bill.id once the flush has assigned it
BillId(s) == Len(s.tx.bills)

NewBill(period_id, account_id, bill_type, amount) ==
    [service_period_id |-> period_id, account_id |-> account_id,
     property_id |-> NULL, bill_type |-> bill_type, bill_amount |-> amount]

\* The loop body and the commit after it.  calculations is the rest of the
\* input list, k the position of its head in the whole list; failAt = k with
\* fail = "execute" makes the account query of that pair raise, with
\* fail = "flush" the flush of its bill; failAt = 0 with fail = "commit"
\* makes the final commit raise.  Nothing catches: a failed query leaves
\* what was flushed so far in the session's open transaction.
RECURSIVE CreateBillsLoop(_, _, _, _, _, _, _, _, _, _)
CreateBillsLoop(store, s, period_id, bill_type, calculations, actor_id, k, bills_created, failAt, fail) ==
    IF calculations = <<>>
    THEN IF fail = "commit" THEN Raised(store, s, "commit")
         ELSE LET s1 == SessionCommit(s)
              IN  Outcome(s1.tx, s1, "ok", bills_created, "no")
    ELSE
    LET user_id == Head(calculations).user_id
        amount == Head(calculations).amount
    IN  IF failAt = k /\ fail = "execute" THEN Raised(store, s, "execute")
        ELSE
        LET s1 == SessionFlush(s)      \* the query autoflushes
            account == OwnerAccounts(s1.tx, user_id)
        IN  IF Cardinality(account) > 1
            THEN Raised(store, s1, "MultipleResultsFound")
            ELSE IF account = {}
            THEN CreateBillsLoop(store, s1, period_id, bill_type, Tail(calculations),
                                 actor_id, k + 1, bills_created, failAt, fail)
            ELSE IF failAt = k /\ fail = "flush" THEN Raised(store, s1, "flush")
            ELSE
            LET account_id == CHOOSE a \in account : TRUE
                s2 == SessionFlush(SessionAdd(s1, "bills",
                          NewBill(period_id, account_id, bill_type, amount)))
                id == BillId(s2)
                s3 == AuditService_log(s2, "bill", id, "create", actor_id,
                          [bill_type |-> bill_type, account_id |-> account_id,
                           account_name |-> s2.tx.accounts[account_id].name,
                           period_id |-> period_id, amount |-> Float(amount)])
            IN  CreateBillsLoop(store, s3, period_id, bill_type, Tail(calculations),
                                actor_id, k + 1, bills_created + 1, failAt, fail)

create_main_bills(store, s, period_id, calculations, actor_id, failAt, fail) ==
    CreateBillsLoop(store, s, period_id, "main", calculations, actor_id, 1, 0, failAt, fail)

create_conservation_bills(store, s, period_id, calculations, actor_id, failAt, fail) ==
    CreateBillsLoop(store, s, period_id, "conservation", calculations, actor_id, 1, 0, failAt, fail)

create_shared_electricity_bills(store, s, period_id, owner_shares, actor_id, failAt, fail) ==
    CreateBillsLoop(store, s, period_id, "shared_electricity", owner_shares, actor_id, 1, 0, failAt, fail)

----------------------------------------------------------------------------
(* decimal.Decimal: a coefficient c and a number e of decimal places, the  *)
(* value being c / 10^e.  The results here stay far below the 28           *)
(* significant digits of the default context, so no operation rounds       *)
(* except quantize.                                                        *)

Dec(c, e) == [c |-> c, e |-> e]

RECURSIVE Pow10(_)
Pow10(n) == IF n = 0 THEN 1 ELSE 10 * Pow10(n - 1)

\* The coefficient of d written with e decimal places (e >= d.e).
Scaled(d, e) == d.c * Pow10(e - d.e)

MaxPlaces(a, b) == IF a.e >= b.e THEN a.e ELSE b.e

\* a <= b read as a < b
DecLessEq_strict(a, b) == Scaled(a, MaxPlaces(a, b)) < Scaled(b, MaxPlaces(a, b))

\* a <= b
DecLessEq(a, b) == Scaled(a, MaxPlaces(a, b)) <= Scaled(b, MaxPlaces(a, b))

\* a < b
DecLess(a, b) == Scaled(a, MaxPlaces(a, b)) < Scaled(b, MaxPlaces(a, b))

DecAdd(a, b) == Dec(Scaled(a, MaxPlaces(a, b)) + Scaled(b, MaxPlaces(a, b)), MaxPlaces(a, b))

\* b - a in place of a - b
DecSub_reversed(a, b) ==
    Dec(Scaled(b, MaxPlaces(a, b)) - Scaled(a, MaxPlaces(a, b)), MaxPlaces(a, b))

DecSub(a, b) == Dec(Scaled(a, MaxPlaces(a, b)) - Scaled(b, MaxPlaces(a, b)), MaxPlaces(a, b))

DecMul(a, b) == Dec(a.c * b.c, a.e + b.e)

\* quantize with rounding=ROUND_HALF_EVEN
Quantize_half_even(d, places) ==
    IF d.e <= places THEN Dec(Scaled(d, places), places)
    ELSE LET p == Pow10(d.e - places)
             mag == IF d.c < 0 THEN 0 - d.c ELSE d.c
             q == mag \div p
             r == mag % p
             up == IF 2 * r > p \/ (2 * r = p /\ q % 2 = 1) THEN q + 1 ELSE q
         IN  Dec(IF d.c < 0 THEN 0 - up ELSE up, places)

\* d.quantize(Decimal("0.01"), rounding=ROUND_HALF_UP) for places = 2: ties
\* go away from zero.
Quantize(d, places) ==
    IF d.e <= places THEN Dec(Scaled(d, places), places)
    ELSE LET p == Pow10(d.e - places)
             mag == IF d.c < 0 THEN 0 - d.c ELSE d.c
             q == mag \div p
             r == mag % p
             up == IF 2 * r >= p THEN q + 1 ELSE q
         IN  Dec(IF d.c < 0 THEN 0 - up ELSE up, places)

----------------------------------------------------------------------------
(* decimal.Decimal where the context rounds: the coefficient is a string   *)
(* of digits d, the highest first and without leading zeros, the value is  *)
(* d * 10^x.  Every operation gives the exact result rounded to the        *)
(* DecimalPrecision significant digits of the default context, ties to the *)
(* even digit (ROUND_HALF_EVEN).  The values here are never negative.      *)

DecimalPrecision == 28

Big(d, x) == [d |-> d, x |-> x]

RECURSIVE Digits(_)
Digits(n) == IF n = 0 THEN <<>> ELSE Append(Digits(n \div 10), n % 10)

RECURSIVE Number(_)
Number(d) == IF d = <<>> THEN 0 ELSE 10 * Number(SubSeq(d, 1, Len(d) - 1)) + d[Len(d)]

Zeros(k) == [i \in 1..(IF k > 0 THEN k ELSE 0) |-> 0]

Strip(d) ==
    LET nonzero == {i \in DOMAIN d : d[i] # 0}
    IN  IF nonzero = {} THEN <<>>
        ELSE SubSeq(d, CHOOSE i \in nonzero : \A j \in nonzero : i <= j, Len(d))

\* Decimal(n), Decimal("1.5"): a decimal of few digits, exactly
ToBig(dec) == Big(Digits(dec.c), 0 - dec.e)

\* The digit strings are added and multiplied four digits at a time, the
\* lowest four first.
DigitAt(d, r) == IF r <= Len(d) THEN d[Len(d) - r + 1] ELSE 0

Limbs(d) ==
    [k \in 1..((Len(d) + 3) \div 4) |->
        DigitAt(d, 4 * k - 3) + 10 * DigitAt(d, 4 * k - 2)
            + 100 * DigitAt(d, 4 * k - 1) + 1000 * DigitAt(d, 4 * k)]

FromLimbs(l) ==
    Strip([p \in 1..(4 * Len(l)) |->
              LET r == 4 * Len(l) - p
              IN  (l[(r \div 4) + 1] \div <<1, 10, 100, 1000>>[(r % 4) + 1]) % 10])

RECURSIVE AddLimbs(_, _, _)
AddLimbs(a, b, carry) ==
    IF a = <<>> /\ b = <<>> THEN (IF carry = 0 THEN <<>> ELSE <<carry>>)
    ELSE LET s == (IF a = <<>> THEN 0 ELSE Head(a)) + (IF b = <<>> THEN 0 ELSE Head(b)) + carry
         IN  <<s % 10000>> \o AddLimbs(IF a = <<>> THEN a ELSE Tail(a),
                                       IF b = <<>> THEN b ELSE Tail(b), s \div 10000)

RECURSIVE MulLimb(_, _, _)
MulLimb(a, m, carry) ==
    IF a = <<>> THEN (IF carry = 0 THEN <<>> ELSE <<carry>>)
    ELSE <<(Head(a) * m + carry) % 10000>>
            \o MulLimb(Tail(a), m, (Head(a) * m + carry) \div 10000)

RECURSIVE MulLimbs(_, _)
MulLimbs(a, b) ==
    IF b = <<>> THEN <<>>
    ELSE AddLimbs(MulLimb(a, Head(b), 0), <<0>> \o MulLimbs(a, Tail(b)), 0)

AddDigits(a, b) == FromLimbs(AddLimbs(Limbs(a), Limbs(b), 0))

MulDigits(a, b) == FromLimbs(MulLimbs(Limbs(a), Limbs(b)))

\* -1, 0 or 1 as the digit string a is below, equal to or above b
CompareDigits(a, b) ==
    IF Len(a) # Len(b) THEN (IF Len(a) < Len(b) THEN 0 - 1 ELSE 1)
    ELSE LET diff == {i \in DOMAIN a : a[i] # b[i]}
         IN  IF diff = {} THEN 0
             ELSE LET i == CHOOSE k \in diff : \A j \in diff : k <= j
                  IN  IF a[i] < b[i] THEN 0 - 1 ELSE 1

\* The digits of v written with the exponent x (x <= v.x).
BigScaled(v, x) == IF v.d = <<>> THEN <<>> ELSE v.d \o Zeros(v.x - x)

MinExponent(a, b) == IF a.x < b.x THEN a.x ELSE b.x

\* The exact sum and product, and the order of two values.
BigAddExact(a, b) ==
    Big(AddDigits(BigScaled(a, MinExponent(a, b)), BigScaled(b, MinExponent(a, b))),
        MinExponent(a, b))

BigMulExact(a, b) == Big(MulDigits(a.d, b.d), a.x + b.x)

BigCompare(a, b) ==
    CompareDigits(BigScaled(a, MinExponent(a, b)), BigScaled(b, MinExponent(a, b)))

\* The context's rounding: to DecimalPrecision digits, ROUND_HALF_EVEN.  The
\* exact value is v, or lies above v by less than one unit of v's last digit
\* when v is inexact.
BigRound(v, inexact) ==
    IF Len(v.d) <= DecimalPrecision THEN v
    ELSE
    LET keep == SubSeq(v.d, 1, DecimalPrecision)
        rest == SubSeq(v.d, DecimalPrecision + 1, Len(v.d))
        c == CompareDigits(Strip(rest), <<5>> \o Zeros(Len(rest) - 1))
        up == c = 1 \/ (c = 0 /\ (inexact \/ keep[DecimalPrecision] % 2 = 1))
        d == IF up THEN AddDigits(keep, <<1>>) ELSE keep
    IN  IF Len(d) > DecimalPrecision
        THEN Big(SubSeq(d, 1, DecimalPrecision), v.x + Len(rest) + 1)
        ELSE Big(d, v.x + Len(rest))

\* a + b and a * b
BigAdd(a, b) == BigRound(BigAddExact(a, b), FALSE)

BigMul(a, b) == BigRound(BigMulExact(a, b), FALSE)

\* Long division of the groups n, the highest first, by a positive integer m
\* of few digits, r the remainder carried in: the quotient's groups q, then
\* up to k more groups after the point (places of them) while the remainder
\* is not zero, and the last remainder r.
RECURSIVE DivLimbs(_, _, _, _)
DivLimbs(n, m, r, k) ==
    IF n = <<>> /\ (r = 0 \/ k = 0) THEN [q |-> <<>>, r |-> r, places |-> 0]
    ELSE LET cur == r * 10000 + (IF n = <<>> THEN 0 ELSE Head(n))
             rec == DivLimbs(IF n = <<>> THEN n ELSE Tail(n), m, cur % m,
                             IF n = <<>> THEN k - 1 ELSE k)
         IN  [q |-> <<cur \div m>> \o rec.q, r |-> rec.r,
              places |-> rec.places + (IF n = <<>> THEN 1 ELSE 0)]

\* a / b, the divisor b a decimal of few digits: the quotient is exact, or
\* has more than DecimalPrecision digits and is rounded.
BigDiv(a, b) ==
    LET n == Limbs(a.d)
        res == DivLimbs([i \in DOMAIN n |-> n[Len(n) + 1 - i]], b.c, 0, 10)
        q == [i \in DOMAIN res.q |-> res.q[Len(res.q) + 1 - i]]
    IN  BigRound(Big(FromLimbs(q), a.x + b.e - 4 * res.places), res.r # 0)

\* v.quantize(Decimal("0.01"), rounding=ROUND_HALF_UP) for places = 2: the
\* first dropped digit decides.
BigQuantize(v, places) ==
    IF v.x >= 0 - places THEN Dec(Number(v.d \o Zeros(v.x + places)), places)
    ELSE
    LET k == 0 - places - v.x
        d == Zeros(k + 1 - Len(v.d)) \o v.d
        keep == SubSeq(d, 1, Len(d) - k)
        up == d[Len(d) - k + 1] >= 5
    IN  Dec(Number(Strip(keep)) + (IF up THEN 1 ELSE 0), places)

----------------------------------------------------------------------------
(* BillsService.calculate_total_electricity *)

ValueError == [ret |-> "raised", fault |-> "ValueError", value |-> NULL]

calculate_total_electricity(electricity_start, electricity_end, electricity_multiplier, electricity_rate, electricity_losses) ==
    IF DecLessEq(electricity_end, electricity_start) THEN ValueError
    ELSE IF DecLess(electricity_start, Dec(0, 0)) \/ DecLess(electricity_end, Dec(0, 0))
    THEN ValueError
    ELSE IF DecLessEq(electricity_multiplier, Dec(0, 0))
               \/ DecLessEq(electricity_rate, Dec(0, 0))
    THEN ValueError
    ELSE IF DecLess(electricity_losses, Dec(0, 0)) THEN ValueError
    ELSE
    LET consumption == DecSub(electricity_end, electricity_start)
        total == DecMul(DecMul(DecMul(consumption, electricity_multiplier),
                               electricity_rate),
                        DecAdd(Dec(1, 0), electricity_losses))
    IN  [ret |-> "ok", fault |-> "no", value |-> Quantize(total, 2)]

----------------------------------------------------------------------------
(* BillsService: the allocation of a year's budget and of a shared cost    *)
(* over the owners' properties.  A row of properties has owner_id,         *)
(* share_weight (a decimal, or None for SQL NULL), is_active and           *)
(* is_conservation.                                                        *)

None == [null |-> TRUE]

Property(owner_id, share_weight, is_active, is_conservation) ==
    [owner_id |-> owner_id, share_weight |-> share_weight,
     is_active |-> is_active, is_conservation |-> is_conservation]

\* year_budget <= 0 or period_months < 1 or period_months > 12
InvalidBudget(year_budget, period_months) ==
    DecLessEq(year_budget, Dec(0, 0)) \/ period_months < 1 \/ period_months > 12

\* the filter also takes the properties that are not active
ActiveWeighted_all(store) ==
    SelectSeq(store.properties, LAMBDA p : p.share_weight # None)

\* select(owner_id, share_weight).filter(is_active).where(share_weight.isnot(None))
ActiveWeighted(store) ==
    SelectSeq(store.properties, LAMBDA p : p.is_active /\ p.share_weight # None)

\* ... .filter(is_active, is_conservation).where(share_weight.isnot(None))
ActiveConservation(store) ==
    SelectSeq(store.properties,
              LAMBDA p : p.is_active /\ p.is_conservation /\ p.share_weight # None)

\* sum(...) of decimals of few digits
RECURSIVE SumWeights(_)
SumWeights(weights) ==
    IF weights = <<>> THEN Dec(0, 0)
    ELSE DecAdd(SumWeights(SubSeq(weights, 1, Len(weights) - 1)), weights[Len(weights)])

\* owner_totals[owner_id] = owner_totals.get(owner_id, Decimal(0)) + amount,
\* the dict as the list of its items in the order of insertion
AddToOwner(owner_totals, owner_id, amount) ==
    IF \E i \in DOMAIN owner_totals : owner_totals[i][1] = owner_id
    THEN [i \in DOMAIN owner_totals |->
            IF owner_totals[i][1] = owner_id
            THEN <<owner_id, BigAdd(owner_totals[i][2], amount)>>
            ELSE owner_totals[i]]
    ELSE Append(owner_totals, <<owner_id, BigAdd(ToBig(Dec(0, 0)), amount)>>)

\* the loop over the selected properties, amounts[i] the amount of the i-th
RECURSIVE GroupByOwner(_, _)
GroupByOwner(properties, amounts) ==
    IF properties = <<>> THEN <<>>
    ELSE AddToOwner(GroupByOwner(SubSeq(properties, 1, Len(properties) - 1),
                                 SubSeq(amounts, 1, Len(amounts) - 1)),
                    properties[Len(properties)].owner_id, amounts[Len(amounts)])

\* monthly_budget * Decimal(period_months) * (weight / Decimal(100))
Amount(monthly_budget, period_months, weight) ==
    BigMul(BigMul(monthly_budget, ToBig(Dec(period_months, 0))), BigDiv(weight, Dec(100, 0)))

calculate_main_bills(store, year_budget, period_months) ==
    IF InvalidBudget(year_budget, period_months) THEN <<>>
    ELSE
    LET properties == ActiveWeighted(store)
        monthly_budget == BigDiv(ToBig(year_budget), Dec(12, 0))
    IN  IF properties = <<>> THEN <<>>
        ELSE GroupByOwner(properties,
                 [i \in DOMAIN properties |->
                     Amount(monthly_budget, period_months,
                            ToBig(properties[i].share_weight))])

\* the weights are taken as percentages of the whole, as for the main bills
Coefficient_unnormalised(total_share_weight) == ToBig(Dec(1, 0))

\* coefficient = Decimal(100) / total_share_weight
Coefficient(total_share_weight) == BigDiv(ToBig(Dec(100, 0)), total_share_weight)

calculate_conservation_bills(store, conservation_year_budget, period_months) ==
    IF InvalidBudget(conservation_year_budget, period_months) THEN <<>>
    ELSE
    LET properties == ActiveConservation(store)
        total_share_weight ==
            SumWeights([i \in DOMAIN properties |-> properties[i].share_weight])
        coefficient == Coefficient(total_share_weight)
        monthly_budget == BigDiv(ToBig(conservation_year_budget), Dec(12, 0))
    IN  IF properties = <<>> THEN <<>>
        ELSE IF DecLessEq(total_share_weight, Dec(0, 0)) THEN <<>>
        ELSE GroupByOwner(properties,
                 [i \in DOMAIN properties |->
                     Amount(monthly_budget, period_months,
                            BigMul(ToBig(properties[i].share_weight), coefficient))])

\* The elements of a set of integers in ascending order.
RECURSIVE Ascending(_)
Ascending(S) ==
    IF S = {} THEN <<>>
    ELSE LET least == CHOOSE x \in S : \A y \in S : x <= y
         IN  <<least>> \o Ascending(S \ {least})

\* select(owner_id, func.sum(share_weight)).where(is_active).group_by(owner_id):
\* SUM passes over NULL and is NULL for a group without a weight; such a
\* group is left out of the dict.
calculate_owner_shares(store) ==
    LET active == SelectSeq(store.properties, LAMBDA p : p.is_active)
        weighted(owner_id) ==
            SelectSeq(active, LAMBDA p : p.owner_id = owner_id /\ p.share_weight # None)
        owners == Ascending({active[i].owner_id : i \in DOMAIN active})
        rows == [k \in DOMAIN owners |->
                    <<owners[k],
                      IF weighted(owners[k]) = <<>> THEN None
                      ELSE SumWeights([i \in DOMAIN weighted(owners[k]) |->
                                          weighted(owners[k])[i].share_weight])>>]
    IN  SelectSeq(rows, LAMBDA row : row[2] # None)

OwnerShare(user_id, user_name, total_share_weight, calculated_bill_amount) ==
    [user_id |-> user_id, user_name |-> user_name,
     total_share_weight |-> total_share_weight,
     calculated_bill_amount |-> calculated_bill_amount]

\* (total_shared_cost * (owner_weight / total_weight_sum)).quantize(
\*     Decimal("0.01"), rounding=ROUND_HALF_UP)
UserShareAmount(total_shared_cost, owner_weight, total_weight_sum) ==
    BigQuantize(BigMul(ToBig(total_shared_cost),
                       BigDiv(ToBig(owner_weight), total_weight_sum)), 2)

distribute_shared_costs(store, total_shared_cost) ==
    IF DecLess(total_shared_cost, Dec(0, 0)) THEN ValueError
    ELSE
    LET owner_shares == calculate_owner_shares(store)
        total_weight_sum == SumWeights([i \in DOMAIN owner_shares |-> owner_shares[i][2]])
        found == SelectSeq(owner_shares, LAMBDA row : row[1] \in DOMAIN store.users)
    IN  IF owner_shares = <<>> THEN [ret |-> "ok", fault |-> "no", value |-> <<>>]
        ELSE IF total_weight_sum.c = 0 THEN [ret |-> "ok", fault |-> "no", value |-> <<>>]
        ELSE [ret |-> "ok", fault |-> "no",
              value |-> [i \in DOMAIN found |->
                            OwnerShare(found[i][1], store.users[found[i][1]].name,
                                       found[i][2],
                                       UserShareAmount(total_shared_cost, found[i][2],
                                                       total_weight_sum))]]

----------------------------------------------------------------------------
(* BalanceCalculationService *)

BalanceResult(balance, invert_for_display) ==
    [balance |-> balance, invert_for_display |-> invert_for_display]

\* A sum that stops after the first amount.
SumAmounts_first(amounts) ==
    IF amounts = <<>> THEN 0 ELSE Head(amounts)

\* sum(x for x in amounts if x) or 0
RECURSIVE SumAmounts(_)
SumAmounts(amounts) ==
    IF amounts = <<>> THEN 0
    ELSE (IF Head(amounts) # NULL THEN Head(amounts) ELSE 0) + SumAmounts(Tail(amounts))

\* The amounts of the rows a select(...).filter(...) returns, in table order.
AmountsOf(rows) == [k \in DOMAIN rows |-> rows[k].amount]

BillAmountsOf(rows) == [k \in DOMAIN rows |-> rows[k].bill_amount]

\* A balance that is negated for the accounts shown inverted.
calculate_account_balance_with_display_inverting(store, account_id) ==
    IF account_id \notin DOMAIN store.accounts
    THEN BalanceResult(Float(0), FALSE)
    ELSE
    LET incoming_total == SumAmounts(AmountsOf(SelectSeq(store.transactions,
                              LAMBDA r : r.to_account_id = account_id)))
        outgoing_total == SumAmounts(AmountsOf(SelectSeq(store.transactions,
                              LAMBDA r : r.from_account_id = account_id)))
        bills_total == SumAmounts(BillAmountsOf(SelectSeq(store.bills,
                              LAMBDA b : b.account_id = account_id)))
        invert_for_display == store.accounts[account_id].account_type = "owner"
        balance == incoming_total - outgoing_total + bills_total
    IN  BalanceResult(Float(IF invert_for_display THEN 0 - balance ELSE balance),
                      invert_for_display)

calculate_account_balance_with_display(store, account_id) ==
    IF account_id \notin DOMAIN store.accounts
    THEN BalanceResult(Float(0), FALSE)
    ELSE
    LET incoming_total == SumAmounts(AmountsOf(SelectSeq(store.transactions,
                              LAMBDA r : r.to_account_id = account_id)))
        outgoing_total == SumAmounts(AmountsOf(SelectSeq(store.transactions,
                              LAMBDA r : r.from_account_id = account_id)))
        bills_total == SumAmounts(BillAmountsOf(SelectSeq(store.bills,
                              LAMBDA b : b.account_id = account_id)))
        balance == Float(incoming_total - outgoing_total + bills_total)
        invert_for_display == store.accounts[account_id].account_type = "owner"
    IN  BalanceResult(balance, invert_for_display)

calculate_account_balance(store, account_id) ==
    calculate_account_balance_with_display(store, account_id).balance

----------------------------------------------------------------------------
(* The calls of the admission workflow, each run to completion.            *)

NoOp ==
    [op |-> "init", rid |-> NULL, tid |-> NULL, admin_tid |-> NULL,
     ret |-> "none", fault |-> "no", value |-> NULL, input |-> <<>>]

\* The verified administrators a handler can pass as admin_user.
Admins(store) ==
    {[id |-> i, telegram_id |-> store.users[i].telegram_id] :
        i \in RowsWhere(store.users, LAMBDA u : u.is_administrator)}

Nobody == [id |-> NULL, telegram_id |-> NULL]

\* The request ids a caller can name: those of the store and one that is absent.
RequestIds(store) == 1..(Len(store.requests) + 1)

\* The user ids an administrator can select: none (0), those of the store,
\* and one that is absent.
SelectableUserIds(store) == 0..(Len(store.users) + 1)

WithinBounds(o) ==
    /\ Len(o.session.tx.requests) <= MaxRequests
    /\ Len(o.session.tx.periods) <= MaxPeriods
    /\ Len(o.session.tx.bills) <= MaxBills
    /\ Len(o.session.tx.audit) + Len(o.session.pending) <= MaxAudit

Init ==
    /\ db = InitStore
    /\ session = SessionLocal(InitStore)
    /\ lastOp = NoOp

FinishInput(o, op, rid, tid, admin, input) ==
    /\ WithinBounds(o)
    /\ db' = o.db
    /\ session' = o.session
    /\ lastOp' = [op |-> op, rid |-> IF o.ret = "ok" THEN o.value ELSE rid,
                  tid |-> tid,
                  admin_tid |-> IF o.ret = "ok" THEN admin.telegram_id ELSE NULL,
                  ret |-> o.ret, fault |-> o.fault, value |-> o.value, input |-> input]

Finish(o, op, rid, tid, admin) == FinishInput(o, op, rid, tid, admin, <<>>)

CreateRequest ==
    \E tid \in TelegramIds, fail \in CreateFailPoints :
        Finish(create_request(db, session, tid, UsernameOf(tid), fail),
               "create_request", NULL, tid, Nobody)

ApproveRequest ==
    \E rid \in RequestIds(db), admin \in Admins(db),
       sel \in SelectableUserIds(db), fail \in ApproveFailPoints :
        FinishInput(approve_request(db, session, rid, admin, sel, fail),
                    "approve_request", rid, NULL, admin,
                    IF fail = "no" THEN <<sel>> ELSE <<>>)

RejectRequest ==
    \E rid \in RequestIds(db), admin \in Admins(db), fail \in RejectFailPoints :
        Finish(reject_request(db, session, rid, admin, fail),
               "reject_request", rid, NULL, admin)

Next ==
    \/ CreateRequest
    \/ ApproveRequest
    \/ RejectRequest

Spec == Init /\ [][Next]_vars

----------------------------------------------------------------------------
(* The workflow with the administrator's reply handlers of bot/handlers.py. *)

Updates(store) ==
    [kind : UpdateKinds, request_id : RequestIds(store),
     admin_id : {a.telegram_id : a \in Admins(store)}]

\* The handler has closed its session (finally: db.close()); the next call
\* gets a new one.
FinishHandler(h, op, update) ==
    /\ db' = h.db
    /\ session' = SessionLocal(h.db)
    /\ lastOp' = [op |-> op, rid |-> update.request_id, tid |-> NULL,
                  admin_tid |-> update.admin_id, ret |-> "none", fault |-> h.fault,
                  value |-> NULL, input |-> h.messages]

HandleAdminApprove ==
    \E update \in Updates(db), fail \in ApproveFailPoints, sendFails \in BOOLEAN :
        FinishHandler(handle_admin_approve(db, update, fail, sendFails),
                      "handle_admin_approve", update)

HandleAdminReject ==
    \E update \in Updates(db), fail \in RejectFailPoints, sendFails \in BOOLEAN :
        FinishHandler(handle_admin_reject(db, update, fail, sendFails),
                      "handle_admin_reject", update)

NextHandlers ==
    \/ CreateRequest
    \/ ApproveRequest
    \/ RejectRequest
    \/ HandleAdminApprove
    \/ HandleAdminReject

SpecHandlers == Init /\ [][NextHandlers]_vars

----------------------------------------------------------------------------
(* The same workflow with the status update of RequestService.             *)

AdminResponses == {"null"}

UpdateRequestStatus ==
    \E rid \in RequestIds(db), new_status \in {APPROVED, REJECTED}, admin \in Admins(db),
       admin_response \in AdminResponses, fail \in UpdateFailPoints :
        Finish(update_request_status(db, session, rid, new_status,
                                     admin.telegram_id, admin_response, fail),
               "update_request_status", rid, NULL, admin)

NextUpdate ==
    \/ CreateRequest
    \/ ApproveRequest
    \/ RejectRequest
    \/ UpdateRequestStatus

SpecUpdate == Init /\ [][NextUpdate]_vars

----------------------------------------------------------------------------
(* Concurrent handlers.  Each handler runs one call on a session of its    *)
(* own; a call advances by the awaits at which it talks to the database    *)
(* (select, flush, commit), and the calls of the other handlers run in     *)
(* between.  In this specification the variable session maps each handler  *)
(* to its call: the position in the method, the arguments, what was        *)
(* loaded, and the handler's session once it has flushed.  SQLite admits   *)
(* one write transaction at a time: a flush waits until no other session   *)
(* has flushed without committing, or gives up ("database is locked").     *)

Handlers == 1..MaxHandlers

Idle ==
    [op |-> "idle", pc |-> "idle", tid |-> NULL, request_id |-> NULL,
     admin_user |-> Nobody, selected_user_id |-> NULL, request |-> NULL,
     user |-> <<>>, session |-> <<>>, ret |-> "none", fault |-> "no",
     value |-> NULL, seen |-> 0, order |-> 0]

\* The call has returned or raised; its session is closed.
Done(c, ret, value, fault) ==
    [c EXCEPT !.pc = "done", !.ret = ret, !.value = value, !.fault = fault,
              !.session = <<>>]

\* create_request up to the check of the pending request
create_request_select(store, c) ==
    LET existing_pending == get_pending_request(store, c.tid)
    IN  IF Cardinality(existing_pending) > 1
        THEN Done(c, "raised", NULL, "MultipleResultsFound")
        ELSE IF existing_pending # {} THEN Done(c, "none", NULL, "no")
        ELSE [c EXCEPT !.pc = "flush", !.seen = Len(store.requests)]

\* create_request from the new AccessRequest to the staged audit entry
create_request_flush(store, c) ==
    LET s2 == SessionFlush(SessionAdd(SessionLocal(store), "requests",
                                      NewRequest(c.tid, UsernameOf(c.tid))))
        id == Len(s2.tx.requests)
        s3 == AuditService_log(s2, "access_request", id, "create", NULL,
                  [user_telegram_id |-> c.tid,
                   user_telegram_username |-> UsernameOf(c.tid),
                   status |-> "pending"])
    IN  [c EXCEPT !.pc = "commit", !.session = s3, !.value = id]

\* approve_request and reject_request up to the loaded request
load_request(store, c, next) ==
    IF get_request_by_id(store, c.request_id) = {}
    THEN Done(c, "none", NULL, "no")
    ELSE [c EXCEPT !.request = store.requests[c.request_id], !.pc = next]

\* approve_request: the selected user, or the user with the requester's
\* telegram id; the assignments stay in the session until the flush.
approve_request_user(store, c) ==
    LET linking == c.selected_user_id # NULL /\ c.selected_user_id > 0
        found == UsersByTelegramId(store, c.request.user_telegram_id)
    IN  IF linking
        THEN IF c.selected_user_id \notin DOMAIN store.users
             THEN Done(c, "none", NULL, "no")
             ELSE [c EXCEPT !.user = <<"link", c.selected_user_id>>, !.pc = "flush"]
        ELSE IF Cardinality(found) > 1
        THEN Done(c, "none", NULL, "MultipleResultsFound")
        ELSE IF found # {}
        THEN [c EXCEPT !.user = <<"activate", CHOOSE u \in found : TRUE>>, !.pc = "flush"]
        ELSE [c EXCEPT !.user = <<"create", NULL>>, !.pc = "flush"]

\* approve_request from the status update to the staged audit entry.  The
\* UPDATEs write the assigned columns onto the rows as they are now.
approve_request_flush(store, c) ==
    LET s1 == SessionLocal(store)
        s2 == IF c.user[1] = "link"
              THEN SessionSet(s1, "users", c.user[2],
                              LinkedUser(store.users[c.user[2]], c.request))
              ELSE IF c.user[1] = "activate"
              THEN SessionSet(s1, "users", c.user[2], ActivatedUser(store.users[c.user[2]]))
              ELSE SessionAdd(s1, "users", PlaceholderUser(c.request))
        s3 == SessionSet(s2, "requests", c.request_id,
                         ApprovedRequest(store.requests[c.request_id], c.admin_user))
        s4 == SessionFlush(s3)
        s5 == AuditService_log(s4, "access_request", c.request_id, "approve",
                  c.admin_user.id,
                  [status |-> "approved",
                   user_telegram_id |-> c.request.user_telegram_id,
                   selected_user_id |-> c.selected_user_id])
    IN  [c EXCEPT !.pc = "commit", !.session = s5, !.value = c.request_id]

\* reject_request from the status update to the staged audit entry
reject_request_flush(store, c) ==
    LET s2 == SessionSet(SessionLocal(store), "requests", c.request_id,
                         RejectedRequest(store.requests[c.request_id], c.admin_user))
        s3 == SessionFlush(s2)
        s4 == AuditService_log(s3, "access_request", c.request_id, "reject",
                  c.admin_user.id,
                  [status |-> "rejected",
                   user_telegram_id |-> c.request.user_telegram_id])
    IN  [c EXCEPT !.pc = "commit", !.session = s4, !.value = c.request_id]

\* A commit that writes nothing and still reports success.
commit_call_dropping(store, c) ==
    [db |-> store, call |-> [Done(c, "ok", c.value, "no") EXCEPT !.order = Len(store.audit)]]

\* A commit that leaves an answered request as it is and still reports
\* success (UPDATE ... WHERE status = 'pending').
commit_call_first_wins(store, c) ==
    [db |-> [SessionCommit(c.session).tx EXCEPT !.requests =
                [i \in DOMAIN SessionCommit(c.session).tx.requests |->
                    IF i \in DOMAIN store.requests /\ store.requests[i].status # PENDING
                    THEN store.requests[i]
                    ELSE SessionCommit(c.session).tx.requests[i]]],
     call |-> [Done(c, "ok", c.value, "no") EXCEPT
                  !.order = Len(SessionCommit(c.session).tx.audit)]]

\* session.commit() and the return of the request; order is the place of
\* the call among the commits, read off the audit log.
commit_call(store, c) ==
    [db |-> SessionCommit(c.session).tx,
     call |-> [Done(c, "ok", c.value, "no") EXCEPT
                  !.order = Len(SessionCommit(c.session).tx.audit)]]

\* The flush gives up: create_request lets the error out, approve_request
\* and reject_request roll back and return None.
database_is_locked(c) ==
    IF c.op = "create_request" THEN Done(c, "raised", NULL, "flush")
    ELSE Done(c, "none", NULL, "flush")

\* The step a call takes at its position.
StepOf(store, c) ==
    IF c.pc = "commit" THEN commit_call(store, c)
    ELSE [db |-> store,
          call |-> IF c.op = "create_request"
                   THEN IF c.pc = "select" THEN create_request_select(store, c)
                        ELSE create_request_flush(store, c)
                   ELSE IF c.op = "approve_request"
                   THEN IF c.pc = "select" THEN load_request(store, c, "user")
                        ELSE IF c.pc = "user" THEN approve_request_user(store, c)
                        ELSE approve_request_flush(store, c)
                   ELSE IF c.pc = "select" THEN load_request(store, c, "flush")
                        ELSE reject_request_flush(store, c)]

\* A second administrator beside the first, as in the handlers' tests.
TwoAdmins ==
    [InitStore EXCEPT !.users =
        Append(@, [telegram_id |-> 8, username |-> "null", name |-> <<"Admin", 2>>,
                   is_active |-> TRUE, is_administrator |-> TRUE])]

\* The stores the handlers start from: no request yet, or one pending
\* request of requester 1.
ConcurrentStores ==
    {TwoAdmins,
     create_request(TwoAdmins, SessionLocal(TwoAdmins), 1, UsernameOf(1), "no").db}

\* The user ids an administrator selects in the concurrent calls: none, or
\* the member.
Selections == {NULL, 2}

Calls(store) ==
    {[Idle EXCEPT !.op = "create_request", !.pc = "select", !.tid = tid] :
        tid \in TelegramIds}
    \cup {[Idle EXCEPT !.op = "approve_request", !.pc = "select", !.request_id = rid,
                       !.admin_user = a, !.selected_user_id = sel] :
            rid \in RequestIds(store), a \in Admins(store), sel \in Selections}
    \cup {[Idle EXCEPT !.op = "reject_request", !.pc = "select", !.request_id = rid,
                       !.admin_user = a] :
            rid \in RequestIds(store), a \in Admins(store)}

InitConcurrent ==
    /\ db \in ConcurrentStores
    /\ session = [h \in Handlers |-> Idle]
    /\ lastOp = NoOp

\* Another handler holds the write transaction.
WriteLocked(h) == \E g \in Handlers \ {h} : session[g].pc = "commit"

StartCall(h) ==
    /\ session[h].op = "idle"
    /\ \E c \in Calls(db) : session' = [session EXCEPT ![h] = c]
    /\ db' = db
    /\ lastOp' = [NoOp EXCEPT !.op = "start", !.rid = h]

Advance(h) ==
    /\ session[h].pc \in {"select", "user", "flush", "commit"}
    /\ session[h].pc = "flush" => ~WriteLocked(h)
    /\ db' = StepOf(db, session[h]).db
    /\ session' = [session EXCEPT ![h] = StepOf(db, session[h]).call]
    /\ lastOp' = [NoOp EXCEPT !.op = session[h].op, !.rid = h, !.fault = session[h].pc]

DatabaseLocked(h) ==
    /\ session[h].pc = "flush"
    /\ WriteLocked(h)
    /\ session' = [session EXCEPT ![h] = database_is_locked(session[h])]
    /\ db' = db
    /\ lastOp' = [NoOp EXCEPT !.op = session[h].op, !.rid = h, !.fault = "locked"]

NextConcurrent == \E h \in Handlers : StartCall(h) \/ Advance(h) \/ DatabaseLocked(h)

SpecConcurrent == InitConcurrent /\ [][NextConcurrent]_vars

----------------------------------------------------------------------------
(* Period management and bill batches.                                     *)

StartDates == {Date(2025, 11, 1), Date(2025, 1, 15)}

PeriodMonths == {0, 3}

PeriodNames == {"null", "Q1"}

ReadingInputs ==
    {[electricity_start |-> 100, electricity_end |-> 200,
      electricity_multiplier |-> 1, electricity_rate |-> 10,
      electricity_losses |-> 0]}

BudgetInputs == {1200}

\* The period ids a caller can name: those of the store and one that is absent.
PeriodIds(store) == 1..(Len(store.periods) + 1)

\* The id of the administrator acting in the period and bill handlers.
ActorIds == {1}

\* The amount of the first and of the second pair of a batch, in cents.
Amounts == <<10000, 25050>>

\* The input lists of a batch: at most two (owner, amount) pairs.  User 1
\* has no owner account, user 2 has one.
Calculations ==
    LET pair(k) == [user_id : {1, 2}, amount : {Amounts[k]}]
    IN  {<<>>} \cup {<<c>> : c \in pair(1)}
               \cup {<<c, d>> : c \in pair(1), d \in pair(2)}

\* Where a batch over the given list can fail.
BatchFaults(calculations) ==
    {<<0, "no">>, <<0, "commit">>}
       \cup {<<k, f>> : k \in DOMAIN calculations, f \in {"execute", "flush"}}

CreatePeriod ==
    \E start_date \in StartDates, period_months \in PeriodMonths,
       name \in PeriodNames, actor_id \in ActorIds, fail \in CreatePeriodFailPoints :
        Finish(create_period(db, session, start_date, period_months, name, actor_id, fail),
               "create_period", NULL, NULL, Nobody)

UpdateElectricityData ==
    \E period_id \in PeriodIds(db), readings \in ReadingInputs,
       actor_id \in ActorIds, fail \in UpdateFailPoints :
        Finish(update_electricity_data(db, session, period_id, readings, actor_id, fail),
               "update_electricity_data", period_id, NULL, Nobody)

UpdateBudgetData ==
    \E period_id \in PeriodIds(db), year_budget \in BudgetInputs,
       conservation_year_budget \in BudgetInputs,
       actor_id \in ActorIds, fail \in UpdateFailPoints :
        Finish(update_budget_data(db, session, period_id, year_budget,
                                  conservation_year_budget, actor_id, fail),
               "update_budget_data", period_id, NULL, Nobody)

ClosePeriod ==
    \E period_id \in PeriodIds(db), actor_id \in ActorIds, fail \in UpdateFailPoints :
        Finish(close_period(db, session, period_id, actor_id, fail),
               "close_period", period_id, NULL, Nobody)

FinishBatch(o, op, period_id, calculations) ==
    /\ WithinBounds(o)
    /\ db' = o.db
    /\ session' = o.session
    /\ lastOp' = [op |-> op, rid |-> period_id, tid |-> NULL, admin_tid |-> NULL,
                  ret |-> o.ret, fault |-> o.fault, value |-> o.value,
                  input |-> IF o.ret = "ok" THEN calculations ELSE <<>>]

CreateMainBills ==
    \E period_id \in DOMAIN db.periods, calculations \in Calculations, actor_id \in ActorIds :
        \E f \in BatchFaults(calculations) :
            FinishBatch(create_main_bills(db, session, period_id, calculations,
                                          actor_id, f[1], f[2]),
                        "create_main_bills", period_id, calculations)

CreateConservationBills ==
    \E period_id \in DOMAIN db.periods, calculations \in Calculations, actor_id \in ActorIds :
        \E f \in BatchFaults(calculations) :
            FinishBatch(create_conservation_bills(db, session, period_id, calculations,
                                                  actor_id, f[1], f[2]),
                        "create_conservation_bills", period_id, calculations)

CreateSharedElectricityBills ==
    \E period_id \in DOMAIN db.periods, owner_shares \in Calculations, actor_id \in ActorIds :
        \E f \in BatchFaults(owner_shares) :
            FinishBatch(create_shared_electricity_bills(db, session, period_id, owner_shares,
                                                        actor_id, f[1], f[2]),
                        "create_shared_electricity_bills", period_id, owner_shares)

\* db.close() and a new SessionLocal(): what was not committed is dropped.
CloseSession ==
    /\ session # SessionLocal(db)
    /\ session' = SessionLocal(db)
    /\ db' = db
    /\ lastOp' = [NoOp EXCEPT !.op = "close"]

NextLedger ==
    \/ CreatePeriod
    \/ UpdateElectricityData
    \/ UpdateBudgetData
    \/ ClosePeriod
    \/ CreateMainBills
    \/ CreateConservationBills
    \/ CreateSharedElectricityBills
    \/ CloseSession

SpecLedger == Init /\ [][NextLedger]_vars

NextCore ==
    \/ CreateRequest
    \/ ApproveRequest
    \/ RejectRequest
    \/ CreatePeriod
    \/ UpdateElectricityData
    \/ UpdateBudgetData
    \/ ClosePeriod
    \/ CreateMainBills
    \/ CreateConservationBills
    \/ CreateSharedElectricityBills
    \/ CloseSession

SpecCore == Init /\ [][NextCore]_vars

----------------------------------------------------------------------------
(* AuditService.log called on a caller's session; the caller flushes,      *)
(* commits or rolls back.                                                  *)

AuditInputs ==
    {AuditLog(entity_type, 1, "create", actor_id, changes) :
        entity_type \in {"period", "bill"}, actor_id \in {NULL, 5},
        changes \in {[none |-> TRUE], [status |-> "closed"]}}

LogCall ==
    /\ Len(session.tx.audit) + Len(session.pending) < MaxAudit
    /\ \E a \in AuditInputs :
          /\ session' = AuditService_log(session, a.entity_type, a.entity_id,
                                         a.action, a.actor_id, a.changes)
          /\ lastOp' = [NoOp EXCEPT !.op = "log", !.ret = "ok", !.value = a]
    /\ db' = db

CallerFlush ==
    /\ session.pending # <<>>
    /\ session' = SessionFlush(session)
    /\ db' = db
    /\ lastOp' = [NoOp EXCEPT !.op = "flush"]

CallerCommit ==
    /\ session # SessionLocal(db)
    /\ session' = SessionCommit(session)
    /\ db' = SessionCommit(session).tx
    /\ lastOp' = [NoOp EXCEPT !.op = "commit"]

CallerRollback ==
    /\ session # SessionLocal(db)
    /\ session' = SessionRollback(session, db)
    /\ db' = db
    /\ lastOp' = [NoOp EXCEPT !.op = "rollback"]

NextAudit ==
    \/ LogCall
    \/ CallerFlush
    \/ CallerCommit
    \/ CallerRollback

SpecAudit == Init /\ [][NextAudit]_vars

----------------------------------------------------------------------------
(* Balance queries over a store that holds transactions and bills.         *)

\* Amounts in hundredths of a rouble; a transaction may carry no amount.
TransactionAmounts == {NULL, 10000, 20000}

BillAmounts == {4000, 8000}

Transactions ==
    {[from_account_id |-> f, to_account_id |-> 3 - f, amount |-> a] :
        f \in {1, 2}, a \in TransactionAmounts}

ElectricityBills ==
    {NewBill(1, account_id, "electricity", a) :
        account_id \in {1, 2}, a \in BillAmounts}

\* The sequences over S of length n or less.
SeqsUpTo(S, n) == UNION {[1..k -> S] : k \in 0..n}

InitBalance ==
    /\ \E txs \in SeqsUpTo(Transactions, MaxTransactions),
          bills \in SeqsUpTo(ElectricityBills, MaxBills) :
          db = [InitStore EXCEPT !.transactions = txs, !.bills = bills]
    /\ session = SessionLocal(db)
    /\ lastOp = NoOp

\* The account ids a caller can name: those of the store and one that is absent.
AccountIds(store) == 1..(Len(store.accounts) + 1)

CalculateAccountBalance ==
    /\ \E account_id \in AccountIds(db) :
          lastOp' = [NoOp EXCEPT !.op = "calculate_account_balance",
                                 !.rid = account_id, !.ret = "ok",
                                 !.value = calculate_account_balance(session.tx, account_id)]
    /\ UNCHANGED <<db, session>>

CalculateAccountBalanceWithDisplay ==
    /\ \E account_id \in AccountIds(db) :
          lastOp' = [NoOp EXCEPT !.op = "calculate_account_balance_with_display",
                                 !.rid = account_id, !.ret = "ok",
                                 !.value = calculate_account_balance_with_display(
                                               session.tx, account_id)]
    /\ UNCHANGED <<db, session>>

NextBalance ==
    \/ CalculateAccountBalance
    \/ CalculateAccountBalanceWithDisplay

SpecBalance == InitBalance /\ [][NextBalance]_vars

----------------------------------------------------------------------------
(* Calls of calculate_total_electricity, a static method without a store.  *)

\* Meter readings: -10, 0, 0.5, 100, 200
Readings == {Dec(0 - 10, 0), Dec(0, 0), Dec(5, 1), Dec(100, 0), Dec(200, 0)}

\* Multipliers: -1, 0, 1, 1.5
Multipliers == {Dec(0 - 1, 0), Dec(0, 0), Dec(1, 0), Dec(15, 1)}

\* Rates: -2, 0, 0.01, 10
Rates == {Dec(0 - 2, 0), Dec(0, 0), Dec(1, 2), Dec(10, 0)}

\* Loss ratios: -0.1, 0, 0.2
Losses == {Dec(0 - 1, 1), Dec(0, 0), Dec(2, 1)}

CalculateTotalElectricity ==
    /\ \E electricity_start \in Readings, electricity_end \in Readings,
          electricity_multiplier \in Multipliers, electricity_rate \in Rates,
          electricity_losses \in Losses :
          LET o == calculate_total_electricity(electricity_start, electricity_end,
                       electricity_multiplier, electricity_rate, electricity_losses)
          IN  lastOp' = [NoOp EXCEPT !.op = "calculate_total_electricity",
                                     !.ret = o.ret, !.fault = o.fault, !.value = o.value,
                                     !.input = <<electricity_start, electricity_end,
                                                 electricity_multiplier, electricity_rate,
                                                 electricity_losses>>]
    /\ UNCHANGED <<db, session>>

NextElectricity == CalculateTotalElectricity

SpecElectricity == Init /\ [][NextElectricity]_vars

----------------------------------------------------------------------------
(* Calls of the allocation functions on a store with properties.           *)

\* Share weights: NULL, 0, 0.5, 1.0, 4.7
Weights == {None, Dec(0, 0), Dec(5, 1), Dec(10, 1), Dec(47, 1)}

\* The owners are the two users of the store.  A property is active and
\* under conservation, active and not, or inactive.
Properties ==
    {Property(owner_id, share_weight, flags[1], flags[2]) :
        owner_id \in {1, 2}, share_weight \in Weights,
        flags \in {<<TRUE, TRUE>>, <<TRUE, FALSE>>, <<FALSE, TRUE>>}}

\* A year's budget and the months of the period: budgets -1200, 0 and 100,
\* months 0, 7 and 13
BudgetCalls ==
    {<<Dec(0 - 1200, 0), 7>>, <<Dec(0, 0), 7>>, <<Dec(100, 0), 0>>,
     <<Dec(100, 0), 7>>, <<Dec(100, 0), 13>>}

\* Shared costs: -1, 0, 108.42
SharedCosts == {Dec(0 - 1, 0), Dec(0, 0), Dec(10842, 2)}

InitAllocation ==
    /\ \E properties \in SeqsUpTo(Properties, MaxProperties) :
          db = [InitStore EXCEPT !.properties = properties]
    /\ session = SessionLocal(db)
    /\ lastOp = NoOp

CalculateMainBills ==
    /\ \E call \in BudgetCalls :
          LET year_budget == call[1]
              period_months == call[2]
          IN  lastOp' = [NoOp EXCEPT !.op = "calculate_main_bills", !.ret = "ok",
                                 !.value = calculate_main_bills(session.tx, year_budget,
                                                                period_months),
                                 !.input = <<year_budget, period_months>>]
    /\ UNCHANGED <<db, session>>

CalculateConservationBills ==
    /\ \E call \in BudgetCalls :
          LET conservation_year_budget == call[1]
              period_months == call[2]
          IN  lastOp' = [NoOp EXCEPT !.op = "calculate_conservation_bills", !.ret = "ok",
                                 !.value = calculate_conservation_bills(
                                               session.tx, conservation_year_budget,
                                               period_months),
                                 !.input = <<conservation_year_budget, period_months>>]
    /\ UNCHANGED <<db, session>>

DistributeSharedCosts ==
    /\ \E total_shared_cost \in SharedCosts :
          LET o == distribute_shared_costs(session.tx, total_shared_cost)
          IN  lastOp' = [NoOp EXCEPT !.op = "distribute_shared_costs",
                                     !.ret = o.ret, !.fault = o.fault, !.value = o.value,
                                     !.input = <<total_shared_cost>>]
    /\ UNCHANGED <<db, session>>

NextAllocation ==
    \/ CalculateMainBills
    \/ CalculateConservationBills
    \/ DistributeSharedCosts

SpecAllocation == InitAllocation /\ [][NextAllocation]_vars

----------------------------------------------------------------------------
(* Properties of the admission workflow (Spec)                             *)

LastRequest == db.requests[lastOp.rid]

\* The committed pending requests of a requester.
PendingRequests(tid) ==
    {i \in DOMAIN db.requests :
        db.requests[i].user_telegram_id = tid /\ db.requests[i].status = PENDING}

\* C1: at most one pending AccessRequest exists for each requester
\* telegram id, in every state reached by create_request, approve_request
\* and reject_request calls run one after the other.
C1_OnePendingPerRequester ==
    \A tid \in TelegramIds : Cardinality(PendingRequests(tid)) <= 1

\* A requester with an answered request holds a new pending one, and a
\* further create_request for that requester has just been turned down.
C1_Witness ==
    /\ lastOp.op = "create_request" /\ lastOp.ret = "none"
    /\ Cardinality(PendingRequests(lastOp.tid)) = 1
    /\ \E i \in DOMAIN db.requests :
          /\ db.requests[i].user_telegram_id = lastOp.tid
          /\ db.requests[i].status # PENDING

\* C2: create_request for a telegram id that already has a pending request
\* returns None without raising (unless the store itself fails) and leaves
\* the store unchanged: no request is inserted, no audit entry is added.
C2_DuplicateCreateIsNoOp ==
    [][(lastOp'.op = "create_request" /\ PendingRequests(lastOp'.tid) # {})
          => /\ db' = db
             /\ lastOp'.ret # "ok"
             /\ (lastOp'.fault = "no" => lastOp'.ret = "none")]_vars

C2_Witness ==
    /\ lastOp.op = "create_request" /\ lastOp.ret = "none" /\ lastOp.fault = "no"
    /\ PendingRequests(lastOp.tid) # {}

\* C3 (as claimed): approved and rejected are terminal: no approve_request
\* or reject_request call changes the status, admin_telegram_id or
\* admin_response of a request that is already approved or rejected.
C3_TerminalStates ==
    [][\A i \in DOMAIN db.requests :
          db.requests[i].status \in {APPROVED, REJECTED}
             => /\ db'.requests[i].status = db.requests[i].status
                /\ db'.requests[i].admin_telegram_id = db.requests[i].admin_telegram_id
                /\ db'.requests[i].admin_response = db.requests[i].admin_response]_vars

\* C4: after approve_request returns the request, the committed store holds
\* an active User with the requester's telegram id, and the request is
\* approved with the approving admin's telegram id and response "approved".
C4_ApproveEffect ==
    (lastOp.op = "approve_request" /\ lastOp.ret = "ok")
       => /\ \E u \in DOMAIN db.users :
                /\ db.users[u].telegram_id = LastRequest.user_telegram_id
                /\ db.users[u].is_active
          /\ LastRequest.status = APPROVED
          /\ LastRequest.admin_telegram_id = lastOp.admin_tid
          /\ LastRequest.admin_response = "approved"

C4_Witness ==
    /\ lastOp.op = "approve_request" /\ lastOp.ret = "ok"
    /\ LastRequest.status = APPROVED
    /\ \E u \in DOMAIN db.users :
          /\ db.users[u].telegram_id = LastRequest.user_telegram_id
          /\ db.users[u].name = <<"User_", LastRequest.user_telegram_id>>

\* C5: approve_request or reject_request with a request id that does not
\* exist returns None and changes nothing in the store.
C5_UnknownRequest ==
    [][(lastOp'.op \in {"approve_request", "reject_request"}
          /\ lastOp'.rid \notin DOMAIN db.requests)
          => (lastOp'.ret = "none" /\ db' = db)]_vars

C5_Witness ==
    /\ lastOp.op \in {"approve_request", "reject_request"}
    /\ lastOp.rid \notin DOMAIN db.requests
    /\ lastOp.ret = "none" /\ lastOp.fault = "no"
    /\ db.requests # <<>>

\* C6: when a step of approve_request or reject_request after the request
\* was loaded raises, the call rolls back and returns None, and the
\* committed store is as before the call.
C6_Atomic ==
    [][(lastOp'.op \in {"approve_request", "reject_request"}
          /\ lastOp'.fault \in {"user", "flush", "log", "commit", "MultipleResultsFound"})
          => /\ lastOp'.ret = "none"
             /\ db' = db
             /\ session' = SessionLocal(db)]_vars

C6_Witness ==
    /\ lastOp.op = "approve_request" /\ lastOp.fault = "commit"
    /\ lastOp.rid \in DOMAIN db.requests
    /\ LastRequest.status = PENDING

\* C7: a successful reject_request changes only the request's status,
\* admin_telegram_id and admin_response and appends one audit entry; no
\* User is created or changed.
C7_RejectFrame ==
    [][(lastOp'.op = "reject_request" /\ lastOp'.ret = "ok")
          => /\ db'.users = db.users
             /\ lastOp'.rid \in DOMAIN db.requests
             /\ db'.requests =
                   [db.requests EXCEPT ![lastOp'.rid] =
                       [@ EXCEPT !.status = REJECTED,
                                 !.admin_telegram_id = lastOp'.admin_tid,
                                 !.admin_response = "rejected"]]
             /\ Len(db'.audit) = Len(db.audit) + 1
             /\ SubSeq(db'.audit, 1, Len(db.audit)) = db.audit
             /\ db'.audit[Len(db'.audit)].action = "reject"
             /\ db'.audit[Len(db'.audit)].entity_id = lastOp'.rid]_vars

C7_Witness ==
    /\ lastOp.op = "reject_request" /\ lastOp.ret = "ok"
    /\ LastRequest.status = REJECTED
    /\ LastRequest.user_telegram_username = "alice"

\* C27: approve_request with a selected user id (and no failing step): when
\* no user has that id the call returns None and the store is unchanged, so
\* the request stays as it was and no user changes; otherwise the call
\* succeeds, the selected user takes the requester's telegram id and
\* username and is active, and no user is added or otherwise changed.
C27_LinkSelectedUser ==
    [][(/\ lastOp'.op = "approve_request" /\ lastOp'.fault = "no"
        /\ lastOp'.input # <<>>
        /\ lastOp'.input[1] > 0
        /\ lastOp'.rid \in DOMAIN db.requests)
          => IF lastOp'.input[1] \notin DOMAIN db.users
             THEN lastOp'.ret = "none" /\ db' = db
             ELSE /\ lastOp'.ret = "ok"
                  /\ db'.users =
                        [db.users EXCEPT ![lastOp'.input[1]] =
                            [@ EXCEPT
                               !.telegram_id = db.requests[lastOp'.rid].user_telegram_id,
                               !.username = db.requests[lastOp'.rid].user_telegram_username,
                               !.is_active = TRUE]]]_vars

\* The member, who had no Telegram identity, was selected for requester 1.
C27_Witness ==
    /\ lastOp.op = "approve_request" /\ lastOp.ret = "ok"
    /\ lastOp.input = <<2>>
    /\ LastRequest.user_telegram_id = 1
    /\ db.users[2].telegram_id = 1 /\ db.users[2].username = "alice"
    /\ db.users[2].is_active
    /\ Len(db.users) = 2

\* C29 (as claimed): no two User records hold the same telegram id, in every
\* state reached by create_request, approve_request (with or without a
\* selected user id) and reject_request from a store without such a pair.
C29_UniqueTelegramIds ==
    \A u, v \in DOMAIN db.users :
        (u # v /\ db.users[u].telegram_id # NULL)
           => db.users[u].telegram_id # db.users[v].telegram_id

\* C30: create_request for a requester without a pending request (and no
\* failing step) inserts one new pending request of that requester and
\* returns it, whatever approved or rejected requests the requester has.
C30_CreateWithoutPending ==
    [][(/\ lastOp'.op = "create_request" /\ lastOp'.fault = "no"
        /\ PendingRequests(lastOp'.tid) = {})
          => /\ lastOp'.ret = "ok"
             /\ Len(db'.requests) = Len(db.requests) + 1
             /\ SubSeq(db'.requests, 1, Len(db.requests)) = db.requests
             /\ lastOp'.value = Len(db'.requests)
             /\ db'.requests[Len(db'.requests)].user_telegram_id = lastOp'.tid
             /\ db'.requests[Len(db'.requests)].status = PENDING]_vars

\* A requester whose earlier request was answered has submitted a new one.
C30_Witness ==
    /\ lastOp.op = "create_request" /\ lastOp.ret = "ok"
    /\ LastRequest.status = PENDING
    /\ \E i \in DOMAIN db.requests :
          /\ db.requests[i].user_telegram_id = lastOp.tid
          /\ db.requests[i].status \in {APPROVED, REJECTED}

----------------------------------------------------------------------------
(* Properties of the administrator's reply handlers (SpecHandlers)         *)

HandlerOps == {"handle_admin_approve", "handle_admin_reject"}

\* Where a handler stops before it calls the service, and the store
\* operations that can fail inside the service.
HandlerStops == {"no_message", "not_command", "no_reply", "unparsable"}

StoreFaults == {"execute", "user", "flush", "log", "commit", "MultipleResultsFound"}

AnsweredAs(op) == IF op = "handle_admin_approve" THEN APPROVED ELSE REJECTED

NotificationOf(op) == IF op = "handle_admin_approve" THEN "welcome" ELSE "rejection"

\* The client notifications among the messages of the last handler call.
Notified == {k \in DOMAIN lastOp'.input : lastOp'.input[k].chat = "client"}

----------------------------------------------------------------------------
(* Properties of concurrent handlers (SpecConcurrent)                      *)

\* The handlers whose create_request for the requester has returned the
\* new request.
Creators(tid) ==
    {h \in Handlers :
        /\ session[h].op = "create_request" /\ session[h].tid = tid
        /\ session[h].pc = "done" /\ session[h].ret = "ok"}

\* The handlers whose approve_request or reject_request of the request has
\* returned it.
Answerers(rid) ==
    {h \in Handlers :
        /\ session[h].op \in {"approve_request", "reject_request"}
        /\ session[h].request_id = rid
        /\ session[h].pc = "done" /\ session[h].ret = "ok"}

\* C25, under SpecConcurrent: every create_request that returned its
\* request has inserted a row of its own for the requester, which is
\* pending until it is answered; and when two of them succeeded for the
\* same requester and the earlier row is still pending, the later call made
\* its pending check before the earlier row was committed: both passed the
\* check before either inserted, and until one is answered the store holds
\* two pending requests of that requester.
C25_RacingCreates ==
    \A tid \in TelegramIds :
        /\ \A h \in Creators(tid) :
              /\ session[h].value \in DOMAIN db.requests
              /\ db.requests[session[h].value].user_telegram_id = tid
              /\ \/ db.requests[session[h].value].status = PENDING
                 \/ Answerers(session[h].value) # {}
        /\ \A h, g \in Creators(tid) :
              (/\ session[h].value < session[g].value
               /\ db.requests[session[h].value].status = PENDING)
                 => session[g].seen < session[h].value
        /\ \A h, g \in Creators(tid) : h # g => session[h].value # session[g].value

\* Two handlers have created a request for requester 1 from a store
\* without requests, and both requests are pending.
C25_Witness ==
    /\ Creators(1) = {1, 2}
    /\ session[1].seen = 0 /\ session[2].seen = 0
    /\ PendingRequests(1) = {1, 2}

AnsweredAsCall(op) == IF op = "approve_request" THEN APPROVED ELSE REJECTED

VerbOf(op) == IF op = "approve_request" THEN "approve" ELSE "reject"

\* The handler among the answerers of a request that committed last.
LastAnswerer(rid) ==
    CHOOSE h \in Answerers(rid) :
        \A g \in Answerers(rid) : session[g].order <= session[h].order

\* C26, under SpecConcurrent: every approve_request and reject_request
\* that returned the request has committed an audit entry of its own for
\* it, two such calls on one request both succeed whether they overlap or
\* follow each other, and the request carries the status and the
\* administrator's telegram id of the call that committed last.
C26_DuplicateAnswers ==
    \A rid \in DOMAIN db.requests :
        Answerers(rid) # {}
           => /\ \A h \in Answerers(rid) :
                    /\ session[h].order \in DOMAIN db.audit
                    /\ db.audit[session[h].order].entity_type = "access_request"
                    /\ db.audit[session[h].order].entity_id = rid
                    /\ db.audit[session[h].order].action = VerbOf(session[h].op)
                    /\ db.audit[session[h].order].actor_id = session[h].admin_user.id
              /\ \A h, g \in Answerers(rid) : h # g => session[h].order # session[g].order
              /\ db.requests[rid].status = AnsweredAsCall(session[LastAnswerer(rid)].op)
              /\ db.requests[rid].admin_telegram_id =
                    session[LastAnswerer(rid)].admin_user.telegram_id

\* Two administrators answered the pending request 1 at the same time, both
\* having loaded it while it was pending: the approval committed first, the
\* rejection last, and the request is rejected.
C26_Witness ==
    /\ Answerers(1) = {1, 2}
    /\ session[1].op = "approve_request" /\ session[2].op = "reject_request"
    /\ session[1].request.status = PENDING /\ session[2].request.status = PENDING
    /\ session[1].admin_user.telegram_id # session[2].admin_user.telegram_id
    /\ session[1].order < session[2].order
    /\ db.requests[1].status = REJECTED
    /\ db.requests[1].admin_telegram_id = session[2].admin_user.telegram_id

----------------------------------------------------------------------------
(* Properties of the audit trail                                           *)

NewAuditEntries == {db'.audit[k] : k \in (Len(db.audit) + 1)..Len(db'.audit)}

\* C8 (as claimed), under SpecUpdate: every committed creation of an
\* AccessRequest and every committed change of a request's status comes
\* with a matching audit entry committed in the same step, and every new
\* audit entry describes a request row as it was committed with it.
C8_MutationsAudited ==
    [][/\ \A i \in DOMAIN db'.requests :
             (i \notin DOMAIN db.requests
                 \/ db'.requests[i].status # db.requests[i].status)
                => \E a \in NewAuditEntries :
                      /\ a.entity_type = "access_request"
                      /\ a.entity_id = i
                      /\ a.changes.status = db'.requests[i].status
       /\ \A a \in NewAuditEntries :
             /\ a.entity_id \in DOMAIN db'.requests
             /\ a.changes.status = db'.requests[a.entity_id].status]_vars

\* C9, under SpecCore: the committed audit log only grows; no committed
\* entry is ever changed or removed, whatever core operation runs.
C9_AppendOnly ==
    [][/\ Len(db'.audit) >= Len(db.audit)
       /\ \A k \in DOMAIN db.audit : db'.audit[k] = db.audit[k]]_vars

\* The log holds entries of the workflow, of a period and of a bill, and a
\* call has just appended to it.
C9_Witness ==
    /\ lastOp.ret = "ok"
    /\ Len(db.audit) = MaxAudit
    /\ \E k \in DOMAIN db.audit : db.audit[k].entity_type = "access_request"
    /\ \E k \in DOMAIN db.audit : db.audit[k].entity_type = "service_period"
    /\ \E k \in DOMAIN db.audit : db.audit[k].entity_type = "bill"

\* C10, under SpecAudit: AuditService.log stages exactly one entry carrying
\* its arguments in the caller's session and neither flushes, commits nor
\* rolls back; the committed log changes only when the caller commits.
C10_LogOnlyStages ==
    [][/\ lastOp'.op = "log"
          => /\ db' = db
             /\ session'.tx = session.tx
             /\ session'.pending =
                   Append(session.pending,
                          [kind |-> "add", table |-> "audit", id |-> NULL,
                           row |-> lastOp'.value])
       /\ db'.audit # db.audit => lastOp'.op = "commit"]_vars

\* An entry has just been staged while an earlier one is flushed but not
\* committed and another is committed.
C10_Witness ==
    /\ lastOp.op = "log"
    /\ Len(session.pending) = 1
    /\ Len(session.tx.audit) > Len(db.audit)
    /\ db.audit # <<>>

----------------------------------------------------------------------------
(* Properties of the bill ledger and the service periods (SpecLedger)      *)

BatchOps ==
    {"create_main_bills", "create_conservation_bills", "create_shared_electricity_bills"}

BillAuditEntries(audit) == {k \in DOMAIN audit : audit[k].entity_type = "bill"}

\* The number of bills the call of this step reports as created.
ReportedBills == IF lastOp'.op \in BatchOps /\ lastOp'.ret = "ok" THEN lastOp'.value ELSE 0

\* C11 (as claimed), under SpecLedger: a bill batch that fails leaves none
\* of its bills and none of its audit entries in the committed store, also
\* when the same session commits later; so every step adds to the store
\* exactly the bills, and the bill audit entries, that a successful batch
\* reports as created.
C11_FailedBatchLeavesNothing ==
    [][/\ Len(db'.bills) = Len(db.bills) + ReportedBills
       /\ Cardinality(BillAuditEntries(db'.audit))
             = Cardinality(BillAuditEntries(db.audit)) + ReportedBills]_vars

BillTypeOf(op) ==
    CASE op = "create_main_bills" -> "main"
      [] op = "create_conservation_bills" -> "conservation"
      [] OTHER -> "shared_electricity"

OwnerAccountsOf(accounts, user_id) ==
    {i \in DOMAIN accounts :
        accounts[i].user_id = user_id /\ accounts[i].account_type = "owner"}

\* The bills a batch over the given pairs has to create, in input order.
RECURSIVE ExpectedBills(_, _, _, _)
ExpectedBills(accounts, period_id, bill_type, pairs) ==
    IF pairs = <<>> THEN <<>>
    ELSE LET owned == OwnerAccountsOf(accounts, Head(pairs).user_id)
             rest == ExpectedBills(accounts, period_id, bill_type, Tail(pairs))
         IN  IF owned = {} THEN rest
             ELSE <<[service_period_id |-> period_id,
                     account_id |-> CHOOSE a \in owned : TRUE,
                     property_id |-> NULL, bill_type |-> bill_type,
                     bill_amount |-> Head(pairs).amount]>> \o rest

\* The bills the call of this step added to the session's transaction.
AddedBills ==
    SubSeq(session'.tx.bills, Len(session.tx.bills) + 1, Len(session'.tx.bills))

\* C12, under SpecLedger: a batch skips the owners that have no account of
\* type owner without failing (it raises only where a step of it fails),
\* creates for every other pair exactly one bill on the owner's account with
\* the pair's amount, the period and the batch's bill type, commits them,
\* and returns the number of bills it created.
C12_BatchSkipsMissingAccounts ==
    [][lastOp'.op \in BatchOps
          => /\ lastOp'.ret = "raised" => lastOp'.fault \in {"execute", "flush", "commit"}
             /\ lastOp'.ret \in {"ok", "raised"}
             /\ lastOp'.ret = "ok"
                   => /\ AddedBills = ExpectedBills(db.accounts, lastOp'.rid,
                                          BillTypeOf(lastOp'.op), lastOp'.input)
                      /\ lastOp'.value = Len(AddedBills)
                      /\ SubSeq(session'.tx.bills, 1, Len(session.tx.bills))
                            = session.tx.bills
                      /\ db'.bills = session'.tx.bills]_vars

\* A batch over two pairs has skipped the owner without an owner account and
\* billed the other one.
C12_Witness ==
    /\ lastOp.op \in BatchOps
    /\ lastOp.ret = "ok"
    /\ Len(lastOp.input) = 2
    /\ lastOp.value = 1
    /\ \E k \in DOMAIN lastOp.input : OwnerAccountsOf(db.accounts, lastOp.input[k].user_id) = {}
    /\ db.bills # <<>>

\* The positions of the bills equal to the given one.
SameBills(bills, b) == {k \in DOMAIN bills : bills[k] = b}

\* C13, under SpecLedger: bill recording suppresses no duplicates; a
\* successful batch adds one bill and one audit entry per billable pair
\* whatever bills exist already, so repeating a batch leaves each affected
\* account with a second, equal bill of that type for the period.
C13_NoDuplicateSuppression ==
    [][lastOp'.op \in BatchOps /\ lastOp'.ret = "ok"
          => LET expected == ExpectedBills(db.accounts, lastOp'.rid,
                                           BillTypeOf(lastOp'.op), lastOp'.input)
             IN  /\ \A i \in DOMAIN expected :
                       Cardinality(SameBills(db'.bills, expected[i]))
                          = Cardinality(SameBills(session.tx.bills, expected[i]))
                               + Cardinality(SameBills(expected, expected[i]))
                 /\ Cardinality(BillAuditEntries(db'.audit))
                       = Cardinality(BillAuditEntries(session.tx.audit))
                            + Cardinality({k \in DOMAIN session.pending :
                                  /\ session.pending[k].table = "audit"
                                  /\ session.pending[k].row.entity_type = "bill"})
                            + Len(expected)]_vars

\* The batch that just ran has created a bill equal to one the store held
\* already, and each of the two has its own audit entry.
C13_Witness ==
    /\ lastOp.op \in BatchOps
    /\ lastOp.ret = "ok"
    /\ lastOp.value >= 1
    /\ \E i \in DOMAIN db.bills :
          /\ i < Len(db.bills)
          /\ db.bills[i] = db.bills[Len(db.bills)]
          /\ \A j \in {i, Len(db.bills)} :
                \E k \in BillAuditEntries(db.audit) : db.audit[k].entity_id = j

ClosedPeriods == {p \in DOMAIN db.periods : db.periods[p].status = "closed"}

\* C14 (as claimed), under SpecLedger: once close_period has succeeded for
\* a period, no bill batch adds a bill against that period.
C14_NoBillsAfterClose ==
    [][lastOp'.op \in BatchOps /\ lastOp'.rid \in ClosedPeriods
          => /\ AddedBills = <<>>
             /\ \A k \in DOMAIN db'.bills :
                   db'.bills[k].service_period_id = lastOp'.rid
                      => k \in DOMAIN db.bills]_vars

\* C15 (as claimed), under SpecLedger: once close_period has succeeded for
\* a period, no call changes its electricity readings or its budgets, and
\* its status stays closed.
C15_ClosedPeriodFrozen ==
    [][\A p \in ClosedPeriods :
          /\ db'.periods[p].status = "closed"
          /\ db'.periods[p].readings = db.periods[p].readings
          /\ db'.periods[p].year_budget = db.periods[p].year_budget
          /\ db'.periods[p].conservation_year_budget
                = db.periods[p].conservation_year_budget]_vars

\* The audit rows of a log that record the creation of bill b.
CreationEntries(audit, b) ==
    {k \in DOMAIN audit :
        /\ audit[k].entity_type = "bill"
        /\ audit[k].action = "create"
        /\ audit[k].entity_id = b}

\* The audit row describes the bill: its type, account, period and amount.
Describes(entry, bill) ==
    /\ entry.changes.bill_type = bill.bill_type
    /\ entry.changes.account_id = bill.account_id
    /\ entry.changes.period_id = bill.service_period_id
    /\ entry.changes.amount = <<"float", bill.bill_amount>>

\* C28, under SpecLedger: every committed bill has exactly one committed
\* audit entry (entity_type bill, action create, entity_id the bill's id)
\* that records its type, account, period and amount; and an audit entry of
\* a bill is staged in the session only once the bill has been flushed
\* under that id.
C28_BillsAudited ==
    /\ \A b \in DOMAIN db.bills :
          /\ Cardinality(CreationEntries(db.audit, b)) = 1
          /\ \A k \in CreationEntries(db.audit, b) : Describes(db.audit[k], db.bills[b])
    /\ \A i \in DOMAIN session.pending :
          (/\ session.pending[i].table = "audit"
           /\ session.pending[i].row.entity_type = "bill")
             => /\ session.pending[i].row.entity_id \in DOMAIN session.tx.bills
                /\ Describes(session.pending[i].row,
                             session.tx.bills[session.pending[i].row.entity_id])

\* A batch has committed two bills of different amounts, each with its entry.
C28_Witness ==
    /\ lastOp.op \in BatchOps /\ lastOp.ret = "ok" /\ lastOp.value = 2
    /\ Len(db.bills) = 2
    /\ Cardinality(BillAuditEntries(db.audit)) = 2

----------------------------------------------------------------------------
(* Properties of the balance queries (SpecBalance)                         *)

RECURSIVE SumAt(_, _)
SumAt(amounts, S) ==
    IF S = {} THEN 0
    ELSE LET k == CHOOSE k \in S : TRUE
         IN  amounts[k] + SumAt(amounts, S \ {k})

Incoming(a) ==
    SumAt([k \in DOMAIN db.transactions |-> db.transactions[k].amount],
          {k \in DOMAIN db.transactions : db.transactions[k].to_account_id = a})

Outgoing(a) ==
    SumAt([k \in DOMAIN db.transactions |-> db.transactions[k].amount],
          {k \in DOMAIN db.transactions : db.transactions[k].from_account_id = a})

Billed(a) ==
    SumAt([k \in DOMAIN db.bills |-> db.bills[k].bill_amount],
          {k \in DOMAIN db.bills : db.bills[k].account_id = a})

\* C16, under SpecBalance: for every existing account calculate_account_balance
\* returns incoming minus outgoing plus bills, each sum being 0 without rows.
C16_BalanceFormula ==
    lastOp.op = "calculate_account_balance" /\ lastOp.rid \in DOMAIN db.accounts
       => lastOp.value
             = Float(Incoming(lastOp.rid) - Outgoing(lastOp.rid) + Billed(lastOp.rid))

\* Incoming 0, outgoing 300 and bills of 120 give -180.
C16_Witness ==
    /\ lastOp.op = "calculate_account_balance"
    /\ lastOp.rid \in DOMAIN db.accounts
    /\ Incoming(lastOp.rid) = 0
    /\ Outgoing(lastOp.rid) = 30000
    /\ Billed(lastOp.rid) = 12000
    /\ lastOp.value = Float(0 - 18000)

\* C17, under SpecBalance: calculate_account_balance_with_display sets
\* invert_for_display exactly for accounts of type owner, and its balance is
\* the raw balance calculate_account_balance returns, whatever the type.
C17_DisplayFlagOnly ==
    lastOp.op = "calculate_account_balance_with_display"
          /\ lastOp.rid \in DOMAIN db.accounts
       => /\ lastOp.value.invert_for_display
                = (db.accounts[lastOp.rid].account_type = "owner")
          /\ lastOp.value.balance = calculate_account_balance(db, lastOp.rid)
          /\ lastOp.value.balance
                = Float(Incoming(lastOp.rid) - Outgoing(lastOp.rid) + Billed(lastOp.rid))

\* An owner account with a balance that is not zero is flagged for inverted
\* display and its balance is reported as it is.
C17_Witness ==
    /\ lastOp.op = "calculate_account_balance_with_display"
    /\ lastOp.rid \in DOMAIN db.accounts
    /\ db.accounts[lastOp.rid].account_type = "owner"
    /\ lastOp.value.invert_for_display
    /\ Billed(lastOp.rid) - Outgoing(lastOp.rid) > 0
    /\ lastOp.value.balance = Float(Billed(lastOp.rid) - Outgoing(lastOp.rid) + Incoming(lastOp.rid))

----------------------------------------------------------------------------
(* Properties of calculate_total_electricity (SpecElectricity)             *)

\* Comparison of two decimals by cross-multiplication.
Lt(a, b) == a.c * Pow10(b.e) < b.c * Pow10(a.e)

Eq(a, b) == a.c * Pow10(b.e) = b.c * Pow10(a.e)

\* in = <<start, end, multiplier, rate, losses>>
Invalid(in) ==
    \/ ~Lt(in[1], in[2])
    \/ in[1].c < 0
    \/ in[2].c < 0
    \/ in[3].c <= 0
    \/ in[4].c <= 0
    \/ in[5].c < 0

\* C18, under SpecElectricity: calculate_total_electricity raises ValueError
\* and returns no amount exactly when end <= start, a reading is negative,
\* multiplier <= 0, rate <= 0 or losses < 0; otherwise it returns an amount.
C18_Validation ==
    lastOp.op = "calculate_total_electricity"
       => IF Invalid(lastOp.input)
          THEN lastOp.ret = "raised" /\ lastOp.fault = "ValueError" /\ lastOp.value = NULL
          ELSE lastOp.ret = "ok" /\ lastOp.value.e = 2

\* Negative losses alone make the call raise.
C18_Witness ==
    /\ lastOp.op = "calculate_total_electricity"
    /\ lastOp.ret = "raised"
    /\ lastOp.input[5].c < 0
    /\ Lt(lastOp.input[1], lastOp.input[2])
    /\ lastOp.input[1].c >= 0
    /\ lastOp.input[3].c > 0
    /\ lastOp.input[4].c > 0

\* (end - start) * multiplier * rate * (1 + losses) as an integer n over 10^e.
ExactTotal(in) ==
    LET e1 == IF in[1].e >= in[2].e THEN in[1].e ELSE in[2].e
        consumption == in[2].c * Pow10(e1 - in[2].e) - in[1].c * Pow10(e1 - in[1].e)
    IN  [n |-> consumption * in[3].c * in[4].c * (Pow10(in[5].e) + in[5].c),
         e |-> e1 + in[3].e + in[4].e + in[5].e]

\* cents hundredths are x rounded half-up to two decimal places (x >= 0).
RoundedHalfUp(x, cents) ==
    IF x.e <= 2 THEN cents = x.n * Pow10(2 - x.e)
    ELSE LET p == Pow10(x.e - 2)
         IN  2 * cents * p - p <= 2 * x.n /\ 2 * x.n < 2 * cents * p + p

\* C19, under SpecElectricity: for valid inputs the result is
\* (end - start) * multiplier * rate * (1 + losses) rounded half-up to
\* exactly two decimal places.
C19_RoundedTotal ==
    lastOp.op = "calculate_total_electricity" /\ lastOp.ret = "ok"
       => /\ lastOp.value.e = 2
          /\ RoundedHalfUp(ExactTotal(lastOp.input), lastOp.value.c)

\* (100, 200, 1.5, 10, 0.2) gives 1800.00.
C19_Witness ==
    /\ lastOp.op = "calculate_total_electricity"
    /\ lastOp.input = <<Dec(100, 0), Dec(200, 0), Dec(15, 1), Dec(10, 0), Dec(2, 1)>>
    /\ lastOp.ret = "ok"
    /\ lastOp.value = Dec(180000, 2)

\* (end - start), multiplier, rate and losses of an input.
Quantities(in) ==
    LET e1 == IF in[1].e >= in[2].e THEN in[1].e ELSE in[2].e
    IN  <<Dec(in[2].c * Pow10(e1 - in[2].e) - in[1].c * Pow10(e1 - in[1].e), e1),
          in[3], in[4], in[5]>>

\* b exceeds a in one of the four quantities and equals it in the others.
Increased(a, b) ==
    \E i \in 1..4 :
        /\ Lt(Quantities(a)[i], Quantities(b)[i])
        /\ \A j \in (1..4) \ {i} : Eq(Quantities(a)[j], Quantities(b)[j])

TwoValidCalls ==
    /\ lastOp.op = "calculate_total_electricity" /\ lastOp.ret = "ok"
    /\ lastOp'.op = "calculate_total_electricity" /\ lastOp'.ret = "ok"

\* C20 (as claimed), under SpecElectricity: for valid inputs, increasing one
\* of (end - start), multiplier, rate and losses with the others fixed
\* increases the returned total.
C20_StrictlyIncreasing ==
    [][TwoValidCalls /\ Increased(lastOp.input, lastOp'.input)
          => lastOp.value.c < lastOp'.value.c]_vars

\* C20 (amended), under SpecElectricity: for valid inputs, increasing one of
\* (end - start), multiplier, rate and losses with the others fixed never
\* decreases the returned total; the rounding to two decimal places can
\* leave it equal.
C20_NonDecreasing ==
    [][TwoValidCalls /\ Increased(lastOp.input, lastOp'.input)
          => lastOp.value.c <= lastOp'.value.c]_vars

\* A call with losses 0.2 has returned the very total the same readings,
\* multiplier and rate give with losses 0.
C20_Witness ==
    /\ lastOp.op = "calculate_total_electricity"
    /\ lastOp.ret = "ok"
    /\ lastOp.input[5] = Dec(2, 1)
    /\ calculate_total_electricity(lastOp.input[1], lastOp.input[2], lastOp.input[3],
                                   lastOp.input[4], Dec(0, 0)).value = lastOp.value

----------------------------------------------------------------------------
(* Properties of the allocation functions (SpecAllocation)                 *)

\* The committed properties that are active and have a weight, those of one
\* owner, and the sum of the weights of a list of properties.
Weighted == SelectSeq(db.properties, LAMBDA p : p.is_active /\ p.share_weight # None)

WeightedOf(owner_id) == SelectSeq(Weighted, LAMBDA p : p.owner_id = owner_id)

WeightedOwners == {Weighted[i].owner_id : i \in DOMAIN Weighted}

WeightOf(properties) == SumWeights([i \in DOMAIN properties |-> properties[i].share_weight])

\* total * weight / weights in cents, computed exactly in integers and
\* rounded half-up.
ExactShareCents(total, weight, weights) ==
    LET e == MaxPlaces(weight, weights)
    IN  (2 * Scaled(total, 2) * Scaled(weight, e) + Scaled(weights, e))
            \div (2 * Scaled(weights, e))

\* C21, under SpecAllocation: for a total cost that is not negative and
\* active properties whose weights have a positive sum, distribute_shared_costs
\* returns one share per owner of such a property, the shares sum to a value
\* within 0.01 * N of the total cost, N the number of owners, and each share
\* is total * (owner weight / sum of weights) rounded half-up to 2 decimals.
C21_SharesOfSharedCost ==
    (/\ lastOp.op = "distribute_shared_costs" /\ lastOp.ret = "ok"
     /\ WeightOf(Weighted).c > 0) =>
        LET shares == lastOp.value
            total == lastOp.input[1]
            sum == SumWeights([i \in DOMAIN shares |-> shares[i].calculated_bill_amount])
        IN  /\ {shares[i].user_id : i \in DOMAIN shares} = WeightedOwners
            /\ Len(shares) = Cardinality(WeightedOwners)
            /\ Scaled(sum, 2) - Scaled(total, 2) <= Len(shares)
            /\ Scaled(total, 2) - Scaled(sum, 2) <= Len(shares)
            /\ \A i \in DOMAIN shares :
                  shares[i].calculated_bill_amount
                      = Dec(ExactShareCents(total, WeightOf(WeightedOf(shares[i].user_id)),
                                            WeightOf(Weighted)), 2)

\* The part of C21 that holds: one share per owner, the sum within 0.01 * N
\* of the total, and each share within one cent of the exact share rounded
\* half-up.
C21_SharesWithinResidual ==
    (/\ lastOp.op = "distribute_shared_costs" /\ lastOp.ret = "ok"
     /\ WeightOf(Weighted).c > 0) =>
        LET shares == lastOp.value
            total == lastOp.input[1]
            sum == SumWeights([i \in DOMAIN shares |-> shares[i].calculated_bill_amount])
        IN  /\ {shares[i].user_id : i \in DOMAIN shares} = WeightedOwners
            /\ Len(shares) = Cardinality(WeightedOwners)
            /\ Scaled(sum, 2) - Scaled(total, 2) <= Len(shares)
            /\ Scaled(total, 2) - Scaled(sum, 2) <= Len(shares)
            /\ \A i \in DOMAIN shares :
                  shares[i].calculated_bill_amount.c
                      \in {ExactShareCents(total, WeightOf(WeightedOf(shares[i].user_id)),
                                           WeightOf(Weighted)) - 1,
                           ExactShareCents(total, WeightOf(WeightedOf(shares[i].user_id)),
                                           WeightOf(Weighted))}

\* distribute_shared_costs has shared 108.42 between an owner of weight 4.7
\* and an owner of weight 0.5: 97.99 and 10.43, the exact shares being 97.995
\* and 10.425.
C21_Witness ==
    /\ lastOp.op = "distribute_shared_costs" /\ lastOp.ret = "ok"
    /\ lastOp.input = <<Dec(10842, 2)>>
    /\ Len(lastOp.value) = 2
    /\ lastOp.value[1].total_share_weight = Dec(47, 1)
    /\ lastOp.value[1].calculated_bill_amount = Dec(9799, 2)
    /\ lastOp.value[2].total_share_weight = Dec(5, 1)
    /\ lastOp.value[2].calculated_bill_amount = Dec(1043, 2)

\* The rounding epsilon: 10^-20, far above the last of the 28 digits of the
\* values compared and far below a cent.
RoundingEpsilon == Big(<<1>>, 0 - 20)

\* a and b differ by RoundingEpsilon or less.
WithinEpsilon(a, b) ==
    /\ BigCompare(a, BigAddExact(b, RoundingEpsilon)) <= 0
    /\ BigCompare(b, BigAddExact(a, RoundingEpsilon)) <= 0

\* The exact sum of a list of values.
RECURSIVE BigSum(_)
BigSum(values) ==
    IF values = <<>> THEN Big(<<>>, 0)
    ELSE BigAddExact(BigSum(SubSeq(values, 1, Len(values) - 1)), values[Len(values)])

\* The committed properties that are active, under conservation and have a
\* weight.
Conserved ==
    SelectSeq(db.properties,
              LAMBDA p : p.is_active /\ p.is_conservation /\ p.share_weight # None)

\* The weights of the conserved properties times 100 / (their sum), as the
\* function computes them.
NormalizedWeights ==
    [i \in DOMAIN Conserved |->
        BigMul(ToBig(Conserved[i].share_weight), Coefficient(WeightOf(Conserved)))]

====
